---- MODULE Spec2Model ----
(***************************************************************************)
(* Model of the validation engine (services/validation_engine.py) and the  *)
(* error recovery system (services/error_recovery_system.py).              *)
(*                                                                         *)
(* Python floats are modelled as exact rationals <<num, den>> in lowest    *)
(* terms with den > 0.  Python values reach the model as typed descriptors *)
(* whose "shape" fields name the malformed cases the code can meet (None,  *)
(* a list where a mapping is expected, a string where a number is          *)
(* expected, ...).                                                         *)
(***************************************************************************)
EXTENDS Integers, Sequences, FiniteSets, TLC

----------------------------------------------------------------------------
(* State.  The three entry points keep no state between calls; each group  *)
(* of variables is the arguments, locals and return value of one call.     *)
VARIABLES
    analysis_data,      \* argument of the running validation call
    vpc,                \* position in validate_complete_analysis
    vi,                 \* index of the next component in validation_rules
    total_score,        \* local of validate_complete_analysis
    max_score,          \* local of validate_complete_analysis
    validation_result,  \* local / return value of validate_complete_analysis
    spc,                \* position in validate_data_sources
    source_validation   \* local / return value of validate_data_sources

validation_vars ==
    <<analysis_data, vpc, vi, total_score, max_score, validation_result,
      spc, source_validation>>

VARIABLES
    error,              \* arguments of the running recover_from_error call
    context,
    component_name,
    rpc,                \* position in recover_from_error
    recovery_strategy,  \* local: the strategy name, "None" when unmatched
    recovery_result,    \* local: what the strategy returned
    outcome,            \* the value recover_from_error returned
    ai_result,          \* how the AI manager answered, "unused" if not asked
    audit_log           \* the audit-sink calls made, in order

recovery_vars ==
    <<error, context, component_name, rpc, recovery_strategy,
      recovery_result, outcome, ai_result, audit_log>>

VARIABLES
    nested,             \* the objects under the record's top-level keys;
                        \* analysis_data and its .copy() refer to the same ones
    input_metadata,     \* analysis_data's own 'metadata' entry
    fixed_metadata,     \* fixed_data's own 'metadata' entry
    data_before,        \* value of analysis_data when the call was made
    fixes_applied,      \* local of auto_fix_common_errors
    apc,                \* position in auto_fix_common_errors
    fix_result,         \* the value auto_fix_common_errors returned
    pass_number         \* 1 for a call on the caller's record, 2 for a call
                        \* on the fixed_data the first call returned

(* two invocations of auto_fix_common_errors given the same record: the    *)
(* locals of each, indexed by the invocation                               *)
VARIABLES
    inv_pc,             \* position of each invocation
    inv_fixes_applied,  \* each invocation's fixes_applied
    inv_fixed_metadata, \* 'metadata' entry of each invocation's fixed_data
    inv_provas_list,    \* each invocation's provas_list (line 449)
    inv_result          \* the value each invocation returned

reentrant_vars ==
    <<inv_pc, inv_fixes_applied, inv_fixed_metadata, inv_provas_list,
      inv_result>>

autofix_vars ==
    <<nested, input_metadata, fixed_metadata, data_before, fixes_applied,
      apc, fix_result, pass_number, reentrant_vars>>

vars == <<validation_vars, recovery_vars, autofix_vars>>

----------------------------------------------------------------------------
(* Exact rational arithmetic standing for the float arithmetic of the code *)

Abs(x) == IF x < 0 THEN -x ELSE x

RECURSIVE GCD(_, _)
GCD(a, b) == IF b = 0 THEN a ELSE GCD(b, a % b)

Norm(n, d) ==
    LET g == GCD(Abs(n), Abs(d))
        s == IF d < 0 THEN -1 ELSE 1
    IN  <<(s * n) \div g, (s * d) \div g>>

Rat(n) == <<n, 1>>
Frac(n, d) == Norm(n, d)
RAdd(x, y) == Norm(x[1] * y[2] + y[1] * x[2], x[2] * y[2])
RMul(x, y) == Norm(x[1] * y[1], x[2] * y[2])
RDivInt(x, k) == Norm(x[1], x[2] * k)
RLe(x, y) == x[1] * y[2] <= y[1] * x[2]
RLt(x, y) == x[1] * y[2] < y[1] * x[2]
RGe(x, y) == RLe(y, x)
RMin(x, y) == IF RLe(x, y) THEN x ELSE y

(* actual / target * 100 *)
Ratio100(actual, target) == Frac(actual * 100, target)

(* min(actual / target * 100, 100) *)
CappedRatio(actual, target) == RMin(Ratio100(actual, target), Rat(100))

RECURSIVE Rep(_, _)
Rep(x, n) == IF n = 0 THEN <<>> ELSE <<x>> \o Rep(x, n - 1)

(* sum(1 for x in s if P(x)), flags[i] telling whether P holds of s[i] *)
CountTrue(flags) == Cardinality({i \in DOMAIN flags : flags[i]})

----------------------------------------------------------------------------
(* ComponentValidation, as every component validator builds it first       *)

NewValidation ==
    [valid |-> FALSE, score |-> Rat(0), critical_issues |-> <<>>,
     warnings |-> <<>>, metrics |-> <<>>]

(* an issue or warning text: its fixed wording and the number(s) it embeds *)
Msg(text, num) == [text |-> text, num |-> num]

(* the validator's own "except Exception" arm: one more critical issue,    *)
(* score and valid left as they were set before the try block              *)
Caught(validation, text) ==
    [validation EXCEPT !.critical_issues = Append(@, Msg(text, 0))]

(* validation['critical_issues'].append(...) / ['warnings'].append(...)     *)
AddCritical(validation, text, num) ==
    [validation EXCEPT !.critical_issues = Append(@, Msg(text, num))]

AddWarning(validation, text, num) ==
    [validation EXCEPT !.warnings = Append(@, Msg(text, num))]

(* validation['metrics'][name] = value *)
SetMetric(validation, name, value) ==
    [validation EXCEPT !.metrics =
        (name :> value) @@ [k \in (DOMAIN @) \ {name} |-> @[k]]]

(* a validator that forgets the critical issues when it sets valid *)
Conclude_ScoreOnly(validation, score, threshold) ==
    [validation EXCEPT !.score = score,
                       !.valid = RGe(score, Rat(threshold))]

(* the last two statements of every validator:                             *)
(*   validation['score'] = score                                           *)
(*   validation['valid'] = score >= threshold and no critical issues       *)
Conclude(validation, score, threshold) ==
    [validation EXCEPT
        !.score = score,
        !.valid = RGe(score, Rat(threshold)) /\ Len(validation.critical_issues) = 0]

----------------------------------------------------------------------------
(* Mental drivers.                                                         *)
(* drivers_data: [shape, dc, items]                                        *)
(*   shape  "dict" | "list" | "none"   what was found under the category   *)
(*   dc     shape of drivers_customizados: "absent" | "none" | "int"       *)
(*          (a non-zero number) | "list"                                   *)
(*   items  the list; an item is [isdict, nome, def_shape, def_len,        *)
(*          boilerplate]: nome "" when absent, definicao_visceral a string *)
(*          of def_len characters or (def_shape = "int") a non-zero number *)

(* a quality test that takes a definition of exactly 50 characters *)
DriverWellFormed_From50(driver) ==
    driver.isdict /\ driver.nome # "" /\ driver.def_len >= 50

DriverWellFormed(driver) ==
    driver.isdict /\ driver.nome # "" /\ driver.def_len > 50

(* len(definicao) on a number raises TypeError, unless nome is empty and   *)
(* the "and" chain stops before it                                         *)
DriverRaises(driver) ==
    driver.isdict /\ driver.nome # "" /\ driver.def_shape = "int"

_validate_mental_drivers(drivers_data) ==
    LET validation == NewValidation
        err == "Erro na validacao de drivers"
    IN
    IF drivers_data.shape # "dict" THEN Caught(validation, err)
    ELSE IF drivers_data.dc \in {"absent", "none"}
            \/ (drivers_data.dc = "list" /\ drivers_data.items = <<>>)
    THEN AddCritical(validation, "Nenhum driver mental encontrado", 0)
    ELSE IF drivers_data.dc = "int" THEN Caught(validation, err)
    ELSE
    LET drivers_list == drivers_data.items
        driver_count == Len(drivers_list)
        v1 == SetMetric(validation, "driver_count", driver_count)
        v2 == IF driver_count < 5
              THEN AddCritical(v1, "Drivers insuficientes", driver_count)
              ELSE IF driver_count < 19
              THEN AddWarning(v1, "Drivers abaixo do ideal", driver_count)
              ELSE v1
        valid_drivers == CountTrue([i \in DOMAIN drivers_list |->
                              DriverWellFormed(drivers_list[i])])
        generic_drivers ==
            CountTrue([i \in DOMAIN drivers_list |->
                          drivers_list[i].isdict
                          /\ drivers_list[i].boilerplate])
        v3 == SetMetric(SetMetric(v2, "valid_drivers", valid_drivers),
                        "generic_drivers", generic_drivers)
        quality_ratio == IF driver_count > 0
                         THEN Ratio100(valid_drivers, driver_count)
                         ELSE Rat(0)
        quantity_score == CappedRatio(driver_count, 19)
        score == RDivInt(RAdd(quantity_score, quality_ratio), 2)
    IN
    IF \E i \in DOMAIN drivers_list : DriverRaises(drivers_list[i])
    THEN Caught(v2, err)
    ELSE Conclude(v3, score, 60)

----------------------------------------------------------------------------
(* Visual proofs (PROVIs).                                                 *)
(* A list value is [shape, items], shape "absent" | "none" | "int" (a      *)
(* non-zero number) | "list".                                              *)
(* proofs_data: [shape, items, arsenal_provis_completo, provas_visuais,    *)
(*   visual_proofs]: shape "list" (items is the list) | "dict" (the three  *)
(*   alternate keys hold list values) | "none".                            *)
(* A proof item is [isdict, nome, experimento, experimento_escolhido,      *)
(*   roteiro_completo, materiais], the last four TRUE when truthy.         *)

EmptyList == [shape |-> "list", items |-> <<>>]

(* d.get(key, []) *)
GetOrEmptyList(lv) == IF lv.shape = "absent" THEN EmptyList ELSE lv

(* bool(value) of a list value *)
Truthy(lv) == lv.shape = "int" \/ (lv.shape = "list" /\ lv.items # <<>>)

(* a or b: a when truthy, else b *)
PyOr(a, b) == IF Truthy(a) THEN a ELSE b

(* len(value) raises TypeError *)
Unsized(lv) == lv.shape \in {"none", "int"}

ProviValid(provi) ==
    provi.isdict /\ provi.nome # ""
    /\ (provi.experimento \/ provi.experimento_escolhido)

ProviComplete(provi) ==
    ProviValid(provi) /\ provi.roteiro_completo /\ provi.materiais

_validate_visual_proofs(proofs_data) ==
    LET validation == NewValidation
        err == "Erro na validacao de PROVIs"
        provis_lv ==
            IF proofs_data.shape = "list"
            THEN [shape |-> "list", items |-> proofs_data.items]
            ELSE IF proofs_data.shape = "dict"
            THEN PyOr(GetOrEmptyList(proofs_data.arsenal_provis_completo),
                      PyOr(GetOrEmptyList(proofs_data.provas_visuais),
                           GetOrEmptyList(proofs_data.visual_proofs)))
            ELSE EmptyList
    IN
    IF Unsized(provis_lv) THEN Caught(validation, err)
    ELSE
    LET provis_list == provis_lv.items
        n == Len(provis_list)
        v1 == SetMetric(validation, "provis_count", n)
        valid_provis == CountTrue([i \in DOMAIN provis_list |->
                              ProviValid(provis_list[i])])
        complete_provis == CountTrue([i \in DOMAIN provis_list |->
                              ProviComplete(provis_list[i])])
        v2 == SetMetric(SetMetric(v1, "valid_provis", valid_provis),
                        "complete_provis", complete_provis)
        quantity_score == IF n >= 5 THEN Rat(100)
                          ELSE IF n >= 3 THEN Rat(80)
                          ELSE Rat(n * 20)
        quality_score == IF n > 0 THEN Ratio100(valid_provis, n) ELSE Rat(0)
        completeness_score ==
            IF n > 0 THEN Ratio100(complete_provis, n) ELSE Rat(0)
        score == RDivInt(RAdd(RAdd(quantity_score, quality_score),
                              completeness_score), 3)
    IN
    IF n = 0 THEN AddCritical(v1, "Nenhuma PROVI encontrada", 0)
    ELSE Conclude(v2, score, 70)

----------------------------------------------------------------------------
(* Anti-objection system.                                                  *)
(* anti_obj_data: [shape, objecoes_universais, scripts_personalizados,     *)
(*   arsenal_emergencia].  objecoes_universais is [shape, keys] with shape *)
(*   "absent" | "none" | "dict" and keys its set of keys; the other two    *)
(*   are sized values [shape, count], shape "absent" | "none" | "sized".   *)

required_universals == <<"tempo", "dinheiro", "confianca">>

(* len(d.get(key, default)) of a sized value; "none" raises *)
SizeOf(sv) == IF sv.shape = "sized" THEN sv.count ELSE 0

_validate_anti_objection(anti_obj_data) ==
    LET validation == NewValidation
        err == "Erro na validacao anti-objecao"
    IN
    IF anti_obj_data.shape # "dict" THEN Caught(validation, err)
    ELSE
    LET universais == anti_obj_data.objecoes_universais
        ukeys == IF universais.shape = "dict" THEN universais.keys ELSE {}
        scripts == anti_obj_data.scripts_personalizados
        arsenal == anti_obj_data.arsenal_emergencia
        v1 == SetMetric(validation, "universais_count", Cardinality(ukeys))
        missing_universals ==
            SelectSeq(required_universals, LAMBDA req : req \notin ukeys)
        v2 == IF missing_universals # <<>>
              THEN AddCritical(v1, "Objecoes universais ausentes",
                               Len(missing_universals))
              ELSE v1
        v3 == SetMetric(v2, "scripts_count", SizeOf(scripts))
        v4 == IF SizeOf(scripts) = 0
              THEN AddCritical(v3, "Scripts personalizados ausentes", 0)
              ELSE v3
        v5 == SetMetric(v4, "arsenal_count", SizeOf(arsenal))
        v6 == IF SizeOf(arsenal) < 5
              THEN AddWarning(v5, "Arsenal de emergencia limitado",
                              SizeOf(arsenal))
              ELSE v5
        coverage_score == IF Cardinality(ukeys) <= 3
                          THEN Ratio100(Cardinality(ukeys), 3)
                          ELSE Rat(100)
        scripts_score == CappedRatio(SizeOf(scripts), 3)
        arsenal_score == CappedRatio(SizeOf(arsenal), 8)
        score == RDivInt(RAdd(RAdd(coverage_score, scripts_score),
                              arsenal_score), 3)
    IN
    IF universais.shape = "none" THEN Caught(validation, err)
    ELSE IF scripts.shape = "none" THEN Caught(v2, err)
    ELSE IF arsenal.shape = "none" THEN Caught(v4, err)
    ELSE Conclude(v6, score, 70)

----------------------------------------------------------------------------
(* Avatar.                                                                 *)
(* avatar_data: [shape, dores_viscerais, feridas_abertas_inconfessaveis,   *)
(*   desejos_secretos, sonhos_proibidos_ardentes, perfil_demografico,      *)
(*   perfil_psicografico], each field a sized value [shape, count].        *)

(* d.get(k1, []) or d.get(k2, []) on sized values *)
SizedOr(a, b) == IF SizeOf(a) > 0 THEN a ELSE b

(* an avatar validator that finds nothing to report *)
Avatar_NoIssues(avatar_data) == NewValidation

_validate_avatar(avatar_data) ==
    LET validation == NewValidation
        err == "Erro na validacao do avatar"
    IN
    IF avatar_data.shape # "dict" THEN Caught(validation, err)
    ELSE
    LET dores == SizedOr(avatar_data.dores_viscerais,
                         avatar_data.feridas_abertas_inconfessaveis)
        desejos == SizedOr(avatar_data.desejos_secretos,
                           avatar_data.sonhos_proibidos_ardentes)
        demografico == avatar_data.perfil_demografico
        psicografico == avatar_data.perfil_psicografico
        v1 == SetMetric(validation, "dores_count", SizeOf(dores))
        v2 == IF SizeOf(dores) < 5
              THEN AddCritical(v1, "Dores insuficientes", SizeOf(dores))
              ELSE v1
        v3 == SetMetric(v2, "desejos_count", SizeOf(desejos))
        v4 == IF SizeOf(desejos) < 5
              THEN AddCritical(v3, "Desejos insuficientes", SizeOf(desejos))
              ELSE v3
        v5 == SetMetric(v4, "demografico_fields", SizeOf(demografico))
        v6 == IF SizeOf(demografico) < 3
              THEN AddWarning(v5, "Perfil demografico limitado", 0)
              ELSE v5
        v7 == SetMetric(v6, "psicografico_fields", SizeOf(psicografico))
        v8 == IF SizeOf(psicografico) < 3
              THEN AddWarning(v7, "Perfil psicografico limitado", 0)
              ELSE v7
        dores_score == CappedRatio(SizeOf(dores), 15)
        desejos_score == CappedRatio(SizeOf(desejos), 15)
        demografico_score == CappedRatio(SizeOf(demografico), 7)
        psicografico_score == CappedRatio(SizeOf(psicografico), 8)
        score == RDivInt(RAdd(RAdd(dores_score, desejos_score),
                              RAdd(demografico_score, psicografico_score)), 4)
    IN
    IF dores.shape = "none" THEN Caught(validation, err)
    ELSE IF desejos.shape = "none" THEN Caught(v2, err)
    ELSE IF demografico.shape = "none" THEN Caught(v4, err)
    ELSE IF psicografico.shape = "none" THEN Caught(v6, err)
    ELSE Conclude(v8, score, 70)

----------------------------------------------------------------------------
(* Forensic metrics.                                                       *)
(* metrics_data: [shape, densidade_persuasiva, intensidade_emocional]      *)
(*   densidade_persuasiva: [shape, argumentos_totais, gatilhos_cialdini]   *)
(*     shape "absent" | "none" | "empty" | "dict" | "list" (non-empty)     *)
(*     argumentos_totais [shape, v]: "absent" | "int" | "str"              *)
(*     gatilhos_cialdini [shape, counts]: "absent" | "none" | "dict" with  *)
(*       the sequence of its values; a value is [shape, v], "int" | "str"  *)
(*   intensidade_emocional: [shape, valores], shape "absent" | "dict" |    *)
(*     "list" (non-empty); a value is [parses, v]: parses is FALSE when    *)
(*     neither int(valor) nor the part before "/" gives an integer         *)

(* a test that takes every counter that is present, zero or not *)
CialdiniActive_Present(count) == count.shape = "int"

CialdiniActive(count) == count.shape = "int" /\ count.v > 0

_validate_forensic_metrics(metrics_data) ==
    LET validation == NewValidation
        err == "Erro na validacao de metricas"
    IN
    IF metrics_data.shape # "dict" THEN Caught(validation, err)
    ELSE
    LET densidade == metrics_data.densidade_persuasiva IN
    IF densidade.shape \in {"absent", "none", "empty"}
    THEN AddCritical(validation, "Densidade persuasiva ausente", 0)
    ELSE IF densidade.shape = "list" THEN Caught(validation, err)
    ELSE
    LET args == densidade.argumentos_totais
        argumentos_totais == IF args.shape = "int" THEN args.v ELSE 0
        v1 == SetMetric(validation, "argumentos_totais", argumentos_totais)
        v2 == IF argumentos_totais < 10
              THEN AddCritical(v1, "Argumentos insuficientes",
                               argumentos_totais)
              ELSE v1
        cialdini == densidade.gatilhos_cialdini
        counts == IF cialdini.shape = "dict" THEN cialdini.counts ELSE <<>>
        cialdini_ativados == CountTrue([i \in DOMAIN counts |-> CialdiniActive(counts[i])])
        v3 == SetMetric(v2, "cialdini_ativados", cialdini_ativados)
        v4 == IF cialdini_ativados < 3
              THEN AddCritical(v3, "Gatilhos de Cialdini insuficientes",
                               cialdini_ativados)
              ELSE v3
        intensidade == metrics_data.intensidade_emocional
        truthy == intensidade.shape \in {"dict", "list"}
                  /\ intensidade.valores # <<>>
        emocoes_validas ==
            CountTrue([i \in DOMAIN intensidade.valores |->
                          intensidade.valores[i].parses
                          /\ intensidade.valores[i].v >= 7])
        v5 == IF truthy
              THEN SetMetric(v4, "emocoes_intensas", emocoes_validas)
              ELSE v4
        v6 == IF truthy /\ emocoes_validas < 2
              THEN AddWarning(v5, "Intensidade emocional baixa",
                              emocoes_validas)
              ELSE v5
        emocoes_intensas == IF truthy THEN emocoes_validas ELSE 0
        argumentos_score == CappedRatio(argumentos_totais, 20)
        cialdini_score == CappedRatio(cialdini_ativados, 6)
        intensidade_score == CappedRatio(emocoes_intensas, 4)
        score == RDivInt(RAdd(RAdd(argumentos_score, cialdini_score),
                              intensidade_score), 3)
    IN
    IF args.shape = "str" THEN Caught(v1, err)
    ELSE IF cialdini.shape = "none" THEN Caught(v2, err)
    ELSE IF \E i \in DOMAIN counts : counts[i].shape = "str"
    THEN Caught(v2, err)
    ELSE IF truthy /\ intensidade.shape = "list" THEN Caught(v4, err)
    ELSE Conclude(v6, score, 60)

----------------------------------------------------------------------------
(* The aggregator, validate_complete_analysis, and validate_data_sources.  *)
(* analysis_data: [shape, drivers_mentais, provas_visuais,                 *)
(*   sistema_anti_objecao, avatar_ultra_detalhado, metricas_forenses,      *)
(*   pesquisa_web_massiva, metricas_forenses_detalhadas, metadata,         *)
(*   serializable, fallback_marker]                                        *)
(*   shape "dict", or "list" when the caller hands over a non-mapping      *)
(*   an absent category reads as {} (analysis_data.get(name, {}))          *)
(*   pesquisa_web_massiva: [shape, search_results]; shape "absent" |       *)
(*     "empty" (falsy) | "dict" | "list" (non-empty); search_results a     *)
(*     list value of [isdict, url], url "trusted" | "untrusted" |          *)
(*     "absent" | "none"                                                   *)
(*   metricas_forenses_detalhadas: TRUE when present and truthy            *)
(*   metadata: [shape, quality_score]; shape "absent" | "dict" | "none" |  *)
(*     "list"; quality_score TRUE when truthy                              *)
(*   serializable: json.dumps(analysis_data) succeeds                      *)
(*   fallback_marker: the serialized record holds a fallback indicator     *)

(* self.validation_rules, in insertion order *)
validation_rules ==
    <<"drivers_mentais", "provas_visuais", "sistema_anti_objecao",
      "avatar_ultra_detalhado", "metricas_forenses">>

(* validator(component_data, analysis_data) for the named component *)
RunValidator(component, data) ==
    CASE component = "drivers_mentais" ->
            _validate_mental_drivers(data.drivers_mentais)
      [] component = "provas_visuais" ->
            _validate_visual_proofs(data.provas_visuais)
      [] component = "sistema_anti_objecao" ->
            _validate_anti_objection(data.sistema_anti_objecao)
      [] component = "avatar_ultra_detalhado" ->
            _validate_avatar(data.avatar_ultra_detalhado)
      [] component = "metricas_forenses" ->
            _validate_forensic_metrics(data.metricas_forenses)

(* a weight table that lost its last entry: the default 0.1 applies *)
WeightForensicDefault(component) ==
    CASE component = "drivers_mentais" -> Frac(25, 100)
      [] component \in {"provas_visuais", "sistema_anti_objecao",
                        "avatar_ultra_detalhado"} -> Frac(20, 100)
      [] OTHER -> Frac(10, 100)

_get_component_weight(component) ==
    CASE component = "drivers_mentais" -> Frac(25, 100)
      [] component = "provas_visuais" -> Frac(20, 100)
      [] component = "sistema_anti_objecao" -> Frac(20, 100)
      [] component = "avatar_ultra_detalhado" -> Frac(20, 100)
      [] component = "metricas_forenses" -> Frac(15, 100)
      [] OTHER -> Frac(10, 100)

NewValidationResult ==
    [overall_valid |-> FALSE, quality_score |-> Rat(0),
     component_validations |-> <<>>, critical_issues |-> <<>>,
     warnings |-> <<>>, recommendations |-> <<>>,
     scientific_compliance |-> FALSE]

(* One turn of the loop over validation_rules: the try body, or the except *)
(* arm when analysis_data.get raises (analysis_data is no mapping).        *)
LoopBody(data, name, idx, total, max, result) ==
    IF data.shape # "dict"
    THEN [total |-> total, max |-> max,
          result |-> [result EXCEPT !.critical_issues =
                         Append(@, Msg("Falha na validacao de", idx))]]
    ELSE
    LET component_validation == RunValidator(name, data)
        weight == _get_component_weight(name)
    IN  [total |-> RAdd(total, RMul(component_validation.score, weight)),
         max |-> RAdd(max, RMul(Rat(100), weight)),
         result |-> [result EXCEPT
            !.component_validations = (name :> component_validation) @@ @,
            !.critical_issues = @ \o component_validation.critical_issues,
            !.warnings = @ \o component_validation.warnings]]

(* validation_result['quality_score'] *)
QualityScore(total, max) ==
    IF RLt(Rat(0), max)
    THEN RMul(RMul(total, <<max[2], max[1]>>), Rat(100))
    ELSE Rat(0)

(* an overall verdict that looks at the score alone *)
OverallValid_ScoreOnly(quality_score, critical_issues) ==
    RGe(quality_score, Rat(80))

(* validation_result['overall_valid'] *)
OverallValid(quality_score, critical_issues) ==
    RGe(quality_score, Rat(80)) /\ Len(critical_issues) = 0

(* _check_scientific_compliance raises AttributeError *)
ComplianceRaises(data) ==
    \/ data.shape # "dict"
    \/ data.pesquisa_web_massiva.shape = "list"
    \/ /\ data.pesquisa_web_massiva.shape = "dict"
       /\ Truthy(data.pesquisa_web_massiva.search_results)
       /\ data.metadata.shape \in {"none", "list"}

(* a check that does not look at metadata.quality_score *)
Compliance_MetricsOnly(data) ==
    IF \/ data.pesquisa_web_massiva.shape \in {"absent", "empty"}
       \/ ~Truthy(data.pesquisa_web_massiva.search_results)
    THEN FALSE
    ELSE data.metricas_forenses_detalhadas

_check_scientific_compliance(data) ==
    IF \/ data.pesquisa_web_massiva.shape \in {"absent", "empty"}
       \/ ~Truthy(data.pesquisa_web_massiva.search_results)
    THEN FALSE
    ELSE LET has_metrics == data.metricas_forenses_detalhadas
             has_validation == data.metadata.shape = "dict"
                               /\ data.metadata.quality_score
         IN  has_metrics /\ has_validation

_generate_recommendations(result) ==
    LET low == SelectSeq(validation_rules,
                 LAMBDA c : c \in DOMAIN result.component_validations
                            /\ RLt(result.component_validations[c].score,
                                   Rat(70)))
    IN  (IF RLt(result.quality_score, Rat(80))
         THEN <<Msg("Melhore a qualidade geral da analise", 0)>> ELSE <<>>)
        \o (IF Len(result.critical_issues) > 0
            THEN <<Msg("Resolva os issues criticos", 0)>> ELSE <<>>)
        \o (IF ~result.scientific_compliance
            THEN <<Msg("Adicione mais fontes cientificas", 0)>> ELSE <<>>)
        \o [i \in 1..Len(low) |->
              Msg("Melhore a qualidade do componente",
                  CHOOSE k \in DOMAIN validation_rules :
                      validation_rules[k] = low[i])]

NewSourceValidation ==
    [real_data_percentage |-> Rat(0), verified_sources |-> 0,
     total_sources |-> 0, source_quality |-> "unknown",
     has_fallback_content |-> FALSE]

(* result.get('url', '') or the domain test raises on this item *)
ResultRaises(result) == ~result.isdict \/ result.url = "none"

(* any(domain in url for domain in verified_domains) *)
ResultVerified(result) == result.isdict /\ result.url = "trusted"

SourceQuality(pct) ==
    IF RGe(pct, Rat(80)) THEN "excellent"
    ELSE IF RGe(pct, Rat(60)) THEN "good"
    ELSE IF RGe(pct, Rat(40)) THEN "fair"
    ELSE "poor"

(* validate_data_sources: the value it returns.  Every statement sits in   *)
(* one try block whose except arm only logs, so an exception leaves the    *)
(* fields written so far and the call returns them.                        *)
validate_data_sources(data) ==
    LET validation == NewSourceValidation IN
    IF data.shape # "dict" THEN validation
    ELSE
    LET pesquisa == data.pesquisa_web_massiva
        sr == GetOrEmptyList(pesquisa.search_results)
        search_results == sr.items
        total == Len(search_results)
        bad == {i \in DOMAIN search_results : ResultRaises(search_results[i])}
        stop == IF bad = {} THEN total + 1
                ELSE CHOOSE i \in bad : \A j \in bad : i <= j
        verified == Cardinality({i \in 1..(stop - 1) :
                                    ResultVerified(search_results[i])})
        counted == [validation EXCEPT !.total_sources = total,
                                      !.verified_sources = verified]
        pct == IF total > 0 THEN Ratio100(verified, total) ELSE Rat(0)
        v1 == IF pesquisa.shape \in {"absent", "empty"} THEN validation
              ELSE [counted EXCEPT !.real_data_percentage = pct]
    IN
    IF pesquisa.shape = "list" THEN validation
    ELSE IF pesquisa.shape = "dict" /\ Unsized(sr) THEN validation
    ELSE IF pesquisa.shape = "dict" /\ bad # {} THEN counted
    ELSE IF ~data.serializable THEN v1
    ELSE [v1 EXCEPT
            !.has_fallback_content = data.fallback_marker,
            !.source_quality = SourceQuality(v1.real_data_percentage)]

----------------------------------------------------------------------------
(* Bounds of the inputs the model draws.                                   *)

MaxDrivers == 20
MaxProvis == 6
MaxScripts == 4
MaxArsenal == 9
MaxAvatar == 16
MaxProfile == 9
MaxArgs == 21
MaxEmotions == 4

DriversData(shape, dc, items) == [shape |-> shape, dc |-> dc, items |-> items]

(* {} read for an absent category *)
EmptyDrivers == DriversData("dict", "absent", <<>>)

ListValue(shape, items) == [shape |-> shape, items |-> items]

AbsentList == ListValue("absent", <<>>)

ProofsData(shape, items, a, b, c) ==
    [shape |-> shape, items |-> items, arsenal_provis_completo |-> a,
     provas_visuais |-> b, visual_proofs |-> c]

EmptyProofs == ProofsData("dict", <<>>, AbsentList, AbsentList, AbsentList)

AbsentSized == [shape |-> "absent", count |-> 0]

Universais(shape, keys) == [shape |-> shape, keys |-> keys]

AntiObjData(shape, u, s, a) ==
    [shape |-> shape, objecoes_universais |-> u,
     scripts_personalizados |-> s, arsenal_emergencia |-> a]

EmptyAntiObj == AntiObjData("dict", Universais("absent", {}), AbsentSized,
                            AbsentSized)

(* Avatar *)
AvatarData(shape, d1, d2, w1, w2, demo, psico) ==
    [shape |-> shape, dores_viscerais |-> d1,
     feridas_abertas_inconfessaveis |-> d2, desejos_secretos |-> w1,
     sonhos_proibidos_ardentes |-> w2, perfil_demografico |-> demo,
     perfil_psicografico |-> psico]

EmptyAvatar == AvatarData("dict", AbsentSized, AbsentSized, AbsentSized,
                          AbsentSized, AbsentSized, AbsentSized)

AbsentValue == [shape |-> "absent", v |-> 0]

Cialdini(shape, counts) == [shape |-> shape, counts |-> counts]

Densidade(shape, args, cialdini) ==
    [shape |-> shape, argumentos_totais |-> args,
     gatilhos_cialdini |-> cialdini]

AbsentDensidade == Densidade("absent", AbsentValue, Cialdini("absent", <<>>))

Intensidade(shape, valores) == [shape |-> shape, valores |-> valores]

AbsentIntensidade == Intensidade("absent", <<>>)

MetricsData(shape, densidade, intensidade) ==
    [shape |-> shape, densidade_persuasiva |-> densidade,
     intensidade_emocional |-> intensidade]

EmptyMetrics == MetricsData("dict", AbsentDensidade, AbsentIntensidade)

Pesquisa(shape, sr) == [shape |-> shape, search_results |-> sr]

AbsentPesquisa == Pesquisa("absent", AbsentList)

Metadata(shape, qs) == [shape |-> shape, quality_score |-> qs]

AbsentMetadata == Metadata("absent", FALSE)

MaxResults == 3

RECURSIVE SeqsUpTo(_, _)
SeqsUpTo(S, n) ==
    IF n = 0 THEN {<<>>}
    ELSE LET shorter == SeqsUpTo(S, n - 1)
         IN  shorter \cup {Append(q, x) : q \in shorter, x \in S}

AnalysisRecord(shape, d, p, a, v, m, pesq, mfd, meta, ser, marker) ==
    [shape |-> shape, drivers_mentais |-> d, provas_visuais |-> p,
     sistema_anti_objecao |-> a, avatar_ultra_detalhado |-> v,
     metricas_forenses |-> m, pesquisa_web_massiva |-> pesq,
     metricas_forenses_detalhadas |-> mfd, metadata |-> meta,
     serializable |-> ser, fallback_marker |-> marker]

(* the empty record {} *)
EmptyRecord ==
    AnalysisRecord("dict", EmptyDrivers, EmptyProofs, EmptyAntiObj,
                   EmptyAvatar, EmptyMetrics, AbsentPesquisa, FALSE,
                   AbsentMetadata, TRUE, FALSE)

(* The records the model hands to the two validation entry points. *)
Records ==
    LET
        (* Driver items *)
        WellFormedDriver ==
            [isdict |-> TRUE, nome |-> "Urgencia", def_shape |-> "str",
             def_len |-> 80, boilerplate |-> FALSE]

        ShortDriver == [WellFormedDriver EXCEPT !.def_len = 50, !.boilerplate = TRUE]

        NamelessDriver == [WellFormedDriver EXCEPT !.nome = ""]

        NonDictDriver == [WellFormedDriver EXCEPT !.isdict = FALSE]

        NumberDefDriver == [WellFormedDriver EXCEPT !.def_shape = "int", !.def_len = 0]

        DriverLists ==
            {Rep(WellFormedDriver, t[1]) \o Rep(ShortDriver, t[2]) :
                t \in {u \in (0..MaxDrivers) \X (0..MaxDrivers) :
                          u[1] + u[2] <= MaxDrivers}}
            \cup {Rep(WellFormedDriver, a) \o <<x>> :
                    a \in 0..5,
                    x \in {NamelessDriver, NonDictDriver, NumberDefDriver}}

        DriversInputs ==
            {DriversData("dict", "list", l) : l \in DriverLists}
            \cup {DriversData("dict", dc, <<>>) : dc \in {"absent", "none", "int"}}
            \cup {DriversData(sh, "absent", <<>>) : sh \in {"list", "none"}}

        (* Proof items *)
        CompleteProvi ==
            [isdict |-> TRUE, nome |-> "PROVI 1", experimento |-> TRUE,
             experimento_escolhido |-> FALSE, roteiro_completo |-> TRUE,
             materiais |-> TRUE]

        ValidProvi ==
            [CompleteProvi EXCEPT !.experimento = FALSE,
                                  !.experimento_escolhido = TRUE,
                                  !.materiais = FALSE]

        NamelessProvi == [CompleteProvi EXCEPT !.nome = ""]

        NonDictProvi == [CompleteProvi EXCEPT !.isdict = FALSE]

        ProviLists ==
            {Rep(CompleteProvi, t[1]) \o Rep(ValidProvi, t[2]) \o Rep(t[4], t[3]) :
                t \in {u \in (0..MaxProvis) \X (0..MaxProvis) \X (0..1) \X
                             {NamelessProvi, NonDictProvi} :
                          u[1] + u[2] + u[3] <= MaxProvis}}

        ProofsInputs ==
            {ProofsData("dict", <<>>, ListValue("list", l), AbsentList, AbsentList) :
                l \in ProviLists}
            \cup {ProofsData("list", l, AbsentList, AbsentList, AbsentList) :
                    l \in {Rep(CompleteProvi, a) : a \in 0..MaxProvis}}
            \cup {ProofsData("dict", <<>>, a, b, c) :
                    <<a, b, c>> \in
                      {ListValue("none", <<>>), ListValue("list", <<>>)}
                      \X {AbsentList, ListValue("list", <<ValidProvi>>),
                          ListValue("int", <<>>)}
                      \X {AbsentList, ListValue("none", <<>>),
                          ListValue("list", <<CompleteProvi, CompleteProvi>>)}}
            \cup {ProofsData("none", <<>>, AbsentList, AbsentList, AbsentList)}

        (* Anti-objection *)
        Sized(count) == [shape |-> "sized", count |-> count]

        NoneSized == [shape |-> "none", count |-> 0]

        UniversalKeys == {"tempo", "dinheiro", "confianca", "preco", "medo"}

        AntiObjInputs ==
            {AntiObjData("dict", Universais("dict", k), s, Sized(8)) :
                k \in SUBSET UniversalKeys,
                s \in {Sized(n) : n \in 0..MaxScripts} \cup {AbsentSized}}
            \cup {AntiObjData("dict", Universais("dict", k), Sized(3), a) :
                    k \in {{}, {"tempo", "dinheiro", "confianca"}, UniversalKeys},
                    a \in {Sized(n) : n \in 0..MaxArsenal} \cup {AbsentSized}}
            \cup {AntiObjData("dict", u, s, a) :
                    <<u, s, a>> \in
                      {Universais("none", {}), Universais("absent", {}),
                       Universais("dict", {"tempo"})}
                      \X {NoneSized, Sized(3)} \X {NoneSized, Sized(8)}}
            \cup {AntiObjData(sh, Universais("absent", {}), AbsentSized, AbsentSized) :
                    sh \in {"list", "none"}}

        AvatarSizes == {0, 4, 5, 6, 15, MaxAvatar}

        ProfileSizes == {0, 2, 3, 7, 8, MaxProfile}

        AvatarInputs ==
            {AvatarData("dict", Sized(d), AbsentSized, Sized(w), AbsentSized,
                        Sized(7), Sized(8)) : d \in AvatarSizes, w \in AvatarSizes}
            \cup {AvatarData("dict", Sized(15), AbsentSized, Sized(5), AbsentSized,
                             Sized(g), Sized(h)) :
                    g \in ProfileSizes, h \in ProfileSizes}
            \cup {AvatarData("dict", d1, d2, w1, w2, g, Sized(8)) :
                    <<d1, d2, w1, w2, g>> \in
                      {AbsentSized, NoneSized, Sized(0)} \X {NoneSized, Sized(15)}
                      \X {AbsentSized, Sized(15)} \X {AbsentSized, NoneSized}
                      \X {NoneSized, Sized(7)}}
            \cup {AvatarData("dict", Sized(15), AbsentSized, Sized(15), AbsentSized,
                             Sized(7), NoneSized)}
            \cup {AvatarData(sh, AbsentSized, AbsentSized, AbsentSized, AbsentSized,
                             AbsentSized, AbsentSized) : sh \in {"list", "none"}}

        (* Forensic metrics *)
        IntValue(v) == [shape |-> "int", v |-> v]

        StrValue == [shape |-> "str", v |-> 0]

        Emotion(parses, v) == [parses |-> parses, v |-> v]

        ArgValues == {0 - MaxArgs, -1, 0, 9, 10, 15, 18, 20, MaxArgs}

        (* the six Cialdini counters, a of them non-zero *)
        CialdiniCounts == {Rep(IntValue(2), a) \o Rep(IntValue(0), 6 - a) : a \in 0..6}

        EmotionLists ==
            {Rep(Emotion(TRUE, 8), t[1]) \o Rep(t[3], t[2]) :
                t \in {u \in (0..(MaxEmotions + 1)) \X (0..1) \X
                             {Emotion(TRUE, 6), Emotion(FALSE, 0)} :
                          u[1] + u[2] <= MaxEmotions + 1}}

        MetricsInputs ==
            {MetricsData("dict", Densidade("dict", IntValue(n), Cialdini("dict", c)),
                         Intensidade("dict", Rep(Emotion(TRUE, 8), 2))) :
                n \in ArgValues, c \in CialdiniCounts}
            \cup {MetricsData("dict",
                              Densidade("dict", IntValue(15),
                                        Cialdini("dict", Rep(IntValue(2), 6))),
                              Intensidade("dict", e)) : e \in EmotionLists}
            \cup {MetricsData("dict", Densidade("dict", a, c), i) :
                    <<a, c, i>> \in
                      {AbsentValue, StrValue, IntValue(15)}
                      \X {Cialdini("absent", <<>>), Cialdini("none", <<>>),
                          Cialdini("dict", <<IntValue(1), StrValue>>),
                          Cialdini("dict", <<IntValue(-1), IntValue(1), IntValue(3),
                                             IntValue(2)>>)}
                      \X {AbsentIntensidade, Intensidade("list", <<Emotion(TRUE, 9)>>),
                          Intensidade("dict", <<>>)}}
            \cup {MetricsData("dict", Densidade(sh, AbsentValue,
                                                Cialdini("absent", <<>>)),
                              AbsentIntensidade) :
                    sh \in {"absent", "none", "empty", "list"}}
            \cup {MetricsData(sh, AbsentDensidade, AbsentIntensidade) :
                    sh \in {"list", "none"}}

        (* Search results and metadata *)
        SearchResult(isdict, url) == [isdict |-> isdict, url |-> url]

        ResultItems ==
            {SearchResult(TRUE, u) : u \in {"trusted", "untrusted", "absent", "none"}}
            \cup {SearchResult(FALSE, "absent")}

        PesquisaInputs ==
            {Pesquisa("dict", ListValue("list", l)) :
                l \in SeqsUpTo(ResultItems, MaxResults)}
            \cup {Pesquisa("dict", ListValue(sh, <<>>)) :
                    sh \in {"absent", "none", "int"}}
            \cup {Pesquisa(sh, AbsentList) : sh \in {"absent", "empty", "list"}}

        (* the values the compliance check tells apart *)
        CompliancePesquisa ==
            {Pesquisa("dict", ListValue("list", <<SearchResult(TRUE, "trusted")>>)),
             Pesquisa("dict", ListValue("list", <<>>)),
             Pesquisa("dict", ListValue("int", <<>>)),
             Pesquisa("dict", AbsentList)}
            \cup {Pesquisa(sh, AbsentList) : sh \in {"absent", "empty", "list"}}

        MetadataInputs ==
            {Metadata("dict", q) : q \in BOOLEAN}
            \cup {Metadata(sh, FALSE) : sh \in {"absent", "none", "list"}}

        (* Per component: a full-score value, one scoring exactly 80 or 60 without *)
        (* critical issues, the empty mapping, and a value that is no mapping.     *)
        DriversChoices ==
            {DriversData("dict", "list", Rep(WellFormedDriver, 19)),
             DriversData("dict", "list",
                         Rep(WellFormedDriver, 12) \o Rep(ShortDriver, 8)),
             EmptyDrivers, DriversData("none", "absent", <<>>)}

        ProofsChoices ==
            {ProofsData("list", Rep(CompleteProvi, 5), AbsentList, AbsentList,
                        AbsentList),
             ProofsData("dict", <<>>,
                        ListValue("list", Rep(CompleteProvi, 2) \o Rep(ValidProvi, 3)),
                        AbsentList, AbsentList),
             EmptyProofs,
             ProofsData("dict", <<>>, ListValue("int", <<>>), AbsentList, AbsentList)}

        AntiObjChoices ==
            {AntiObjData("dict",
                         Universais("dict", {"tempo", "dinheiro", "confianca"}),
                         Sized(3), Sized(8)),
             EmptyAntiObj,
             AntiObjData("dict", Universais("dict", {"tempo", "dinheiro"}),
                         NoneSized, Sized(8))}

        AvatarChoices ==
            {AvatarData("dict", Sized(15), AbsentSized, Sized(15), AbsentSized,
                        Sized(7), Sized(8)),
             AvatarData("dict", Sized(6), AbsentSized, AbsentSized, Sized(15),
                        Sized(7), Sized(0)),
             EmptyAvatar,
             AvatarData("list", AbsentSized, AbsentSized, AbsentSized, AbsentSized,
                        AbsentSized, AbsentSized)}

        MetricsChoices ==
            {MetricsData("dict",
                         Densidade("dict", IntValue(20),
                                   Cialdini("dict", Rep(IntValue(2), 6))),
                         Intensidade("dict", Rep(Emotion(TRUE, 8), 4))),
             MetricsData("dict",
                         Densidade("dict", IntValue(18),
                                   Cialdini("dict", Rep(IntValue(2), 6))),
                         Intensidade("dict", Rep(Emotion(TRUE, 8), 2))),
             EmptyMetrics,
             MetricsData("dict", Densidade("dict", StrValue, Cialdini("absent", <<>>)),
                         AbsentIntensidade)}

        WithField(rec, field, value) == [rec EXCEPT ![field] = value]
    IN
        {AnalysisRecord("dict", d, p, a, v, m, AbsentPesquisa, FALSE,
                        AbsentMetadata, TRUE, FALSE) :
            d \in DriversChoices, p \in ProofsChoices, a \in AntiObjChoices,
            v \in AvatarChoices, m \in MetricsChoices}
        \cup {WithField(EmptyRecord, "drivers_mentais", x) : x \in DriversInputs}
        \cup {WithField(EmptyRecord, "provas_visuais", x) : x \in ProofsInputs}
        \cup {WithField(EmptyRecord, "sistema_anti_objecao", x) :
                x \in AntiObjInputs}
        \cup {WithField(EmptyRecord, "avatar_ultra_detalhado", x) :
                x \in AvatarInputs}
        \cup {WithField(EmptyRecord, "metricas_forenses", x) : x \in MetricsInputs}
        \cup {WithField(EmptyRecord, "pesquisa_web_massiva", x) :
                x \in PesquisaInputs}
        \cup {AnalysisRecord("dict", EmptyDrivers, EmptyProofs, EmptyAntiObj,
                             EmptyAvatar, EmptyMetrics, pq, mfd, meta, TRUE,
                             FALSE) :
                pq \in CompliancePesquisa, mfd \in BOOLEAN,
                meta \in MetadataInputs}
        \cup {AnalysisRecord("dict", EmptyDrivers, EmptyProofs, EmptyAntiObj,
                             EmptyAvatar, EmptyMetrics, pq, FALSE,
                             AbsentMetadata, ser, mk) :
                pq \in {AbsentPesquisa,
                        Pesquisa("dict", ListValue("list",
                            <<SearchResult(TRUE, "trusted"),
                              SearchResult(TRUE, "untrusted")>>))},
                ser \in BOOLEAN, mk \in BOOLEAN}
        \cup {WithField(EmptyRecord, "shape", "list")}

ValidationInit ==
    /\ analysis_data = EmptyRecord
    /\ vpc = "idle"
    /\ vi = 1
    /\ total_score = Rat(0)
    /\ max_score = Rat(0)
    /\ validation_result = NewValidationResult
    /\ spc = "idle"
    /\ source_validation = NewSourceValidation

(* validate_complete_analysis is entered: lines 43-55 *)
StartValidation ==
    /\ vpc = "idle" /\ spc = "idle"
    /\ \E rec \in Records : analysis_data' = rec
    /\ vpc' = "loop"
    /\ vi' = 1
    /\ total_score' = Rat(0)
    /\ max_score' = Rat(0)
    /\ validation_result' = NewValidationResult
    /\ UNCHANGED <<spc, source_validation>>
    /\ UNCHANGED <<recovery_vars, autofix_vars>>

(* one iteration of the loop of lines 58-80 *)
ValidateComponent ==
    /\ vpc = "loop"
    /\ LET step == LoopBody(analysis_data, validation_rules[vi], vi,
                            total_score, max_score, validation_result)
       IN  /\ total_score' = step.total
           /\ max_score' = step.max
           /\ validation_result' = step.result
    /\ vi' = vi + 1
    /\ vpc' = IF vi = Len(validation_rules) THEN "score" ELSE "loop"
    /\ UNCHANGED <<analysis_data, spc, source_validation>>
    /\ UNCHANGED <<recovery_vars, autofix_vars>>

(* lines 83-89 *)
ComputeScore ==
    /\ vpc = "score"
    /\ LET quality_score == QualityScore(total_score, max_score)
       IN  validation_result' =
             [validation_result EXCEPT
                !.quality_score = quality_score,
                !.overall_valid =
                    OverallValid(quality_score,
                                 validation_result.critical_issues)]
    /\ vpc' = "compliance"
    /\ UNCHANGED <<analysis_data, vi, total_score, max_score, spc,
                   source_validation>>
    /\ UNCHANGED <<recovery_vars, autofix_vars>>

(* lines 92-99: the compliance check runs outside any try block, so an     *)
(* exception in it leaves validate_complete_analysis without a result      *)
FinishValidation ==
    /\ vpc = "compliance"
    /\ IF ComplianceRaises(analysis_data)
       THEN /\ vpc' = "raised"
            /\ UNCHANGED validation_result
       ELSE /\ vpc' = "done"
            /\ LET r1 == [validation_result EXCEPT
                            !.scientific_compliance =
                                _check_scientific_compliance(analysis_data)]
               IN  validation_result' =
                     [r1 EXCEPT !.recommendations =
                                    _generate_recommendations(r1)]
    /\ UNCHANGED <<analysis_data, vi, total_score, max_score, spc,
                   source_validation>>
    /\ UNCHANGED <<recovery_vars, autofix_vars>>

(* validate_data_sources, lines 448-501 *)
ValidateDataSources ==
    /\ vpc = "idle" /\ spc = "idle"
    /\ \E rec \in Records :
          /\ analysis_data' = rec
          /\ source_validation' = validate_data_sources(rec)
    /\ spc' = "done"
    /\ UNCHANGED <<vpc, vi, total_score, max_score, validation_result>>
    /\ UNCHANGED <<recovery_vars, autofix_vars>>

ValidationNext ==
    \/ StartValidation
    \/ ValidateComponent
    \/ ComputeScore
    \/ FinishValidation
    \/ ValidateDataSources

----------------------------------------------------------------------------
(* Error recovery system: recover_from_error.                              *)
(* error: [type, message]; message is the text of str(error) as a sequence *)
(*   of tokens (words or fixed phrases) joined by single spaces, so that   *)
(*   "needle in error_str" is containment of a contiguous run of tokens    *)
(* context: [shape, segmento]; shape "dict" | "list"; segmento "absent" |  *)
(*   "str" | "int" (the value under 'segmento')                            *)
(* component_name: [shape, parts]; shape "none" | "str" | "int"; parts the *)
(*   name as a sequence of fragments                                       *)

(* needle in haystack, both token sequences *)
Contains(haystack, needle) ==
    \E i \in 0..(Len(haystack) - Len(needle)) :
        \A j \in 1..Len(needle) : haystack[i + j] = needle[j]

(* str.lower() of one token *)
LowerToken(t) ==
    CASE t = "Invalid" -> "invalid"
      [] t = "Validation" -> "validation"
      [] OTHER -> t

Lower(msg) == [i \in DOMAIN msg |-> LowerToken(msg[i])]

(* comp in component_name *)
NameContains(name, comp) == \E i \in DOMAIN name.parts : name.parts[i] = comp

(* bool(component_name) *)
NameTruthy(name) ==
    \/ name.shape = "int"
    \/ name.shape = "str" /\ name.parts # <<>>

FragileComponents == <<"driver", "visual", "anti_objection">>

(* a test that takes every string name for a fragile component *)
NameIsFragile_AnyString(name) == name.shape = "str"

(* any(comp in component_name for comp in [...]) *)
NameIsFragile(name) ==
    \E k \in DOMAIN FragileComponents :
        NameContains(name, FragileComponents[k])

(* a classifier that tests the generic no-attribute rule first *)
Identify_GenericFirst(error_str, name) ==
    IF Contains(error_str, <<"object has no attribute">>)
    THEN "missing_method"
    ELSE IF Contains(error_str, <<"'AIManager'", "object has no attribute">>)
    THEN "ai_manager_fallback"
    ELSE IF Contains(error_str, <<"list indices must be integers">>)
    THEN "invalid_data_structure"
    ELSE IF Contains(error_str, <<"takes">>)
            /\ Contains(error_str, <<"positional arguments">>)
    THEN "invalid_data_structure"
    ELSE IF NameTruthy(name) /\ NameIsFragile(name)
    THEN "component_failure"
    ELSE IF Contains(Lower(error_str), <<"validation">>)
            \/ Contains(Lower(error_str), <<"invalid">>)
    THEN "validation_failure"
    ELSE "None"

(* the strategy name, "None" for no match; called only when               *)
(* IdentifyRaises is false                                                 *)
_identify_recovery_strategy(error_str, name) ==
    IF Contains(error_str, <<"'AIManager'", "object has no attribute">>)
    THEN "ai_manager_fallback"
    ELSE IF Contains(error_str, <<"object has no attribute">>)
    THEN "missing_method"
    ELSE IF Contains(error_str, <<"list indices must be integers">>)
    THEN "invalid_data_structure"
    ELSE IF Contains(error_str, <<"takes">>)
            /\ Contains(error_str, <<"positional arguments">>)
    THEN "invalid_data_structure"
    ELSE IF NameTruthy(name) /\ NameIsFragile(name)
    THEN "component_failure"
    ELSE IF Contains(Lower(error_str), <<"validation">>)
            \/ Contains(Lower(error_str), <<"invalid">>)
    THEN "validation_failure"
    ELSE "None"

(* line 96 is reached with a number as component_name: "comp in 5" raises  *)
(* TypeError                                                               *)
IdentifyRaises(error_str, name) ==
    /\ name.shape = "int"
    /\ _identify_recovery_strategy(error_str, [name EXCEPT !.shape = "none"])
         \notin {"ai_manager_fallback", "missing_method",
                 "invalid_data_structure"}

(* Outcomes.  Texts that embed nothing variable are left out of the model  *)
(* except "recommendation", whose presence later properties read; the      *)
(* timestamp is the fixed value Now.                                       *)
Now == "now"
TrueValue == [shape |-> "true", segmento |-> "absent"]

(* context.get('segmento', 'negocios'); raises on a context that is no     *)
(* mapping                                                                 *)
Segmento(ctx) == IF ctx.segmento = "absent" THEN "negocios" ELSE ctx.segmento

(* an emergency outcome that reports success *)
Emergency_ReportsSuccess(err, ctx, name) ==
    [recovery_successful |-> TRUE,
     method |-> "emergency_recovery",
     error_type |-> err.type,
     error_message |-> err.message,
     context_preserved |-> TrueValue,
     emergency_data |->
        [status |-> "emergency_mode", context |-> ctx, component |-> name],
     timestamp |-> Now]

_emergency_recovery(err, ctx, name) ==
    [recovery_successful |-> FALSE,
     method |-> "emergency_recovery",
     error_type |-> err.type,
     error_message |-> err.message,
     context_preserved |-> TrueValue,
     emergency_data |->
        [status |-> "emergency_mode", context |-> ctx, component |-> name],
     timestamp |-> Now]

_generic_recovery(err, ctx, name) ==
    [recovery_successful |-> TRUE,
     method |-> "generic_recovery",
     error_type |-> err.type,
     error_message |-> err.message,
     context_preserved |-> ctx,
     component_name |-> name,
     fallback_data |->
        [kind |-> "basic", status |-> "recovered_with_basic_data",
         count |-> 0, items |-> <<>>, segmento |-> "absent"],
     timestamp |-> Now]

(* _recover_ai_manager.  ai is what the AI manager does: "raises" (the     *)
(* import or a call fails), "no_provider" (none is 'available'),           *)
(* "empty" (generate_analysis returns nothing), "response"                 *)
_recover_ai_manager(err, ctx, name, ai) ==
    IF ai = "raises" THEN _emergency_recovery(err, ctx, name)
    ELSE IF ai \in {"empty", "response"} /\ ctx.shape # "dict"
    THEN _emergency_recovery(err, ctx, name)
    ELSE IF ai = "response"
    THEN [recovery_successful |-> TRUE,
          method |-> "ai_manager_reset",
          available_provider |-> "provider",
          test_response |-> "text",
          recommendation |-> "AI Manager recuperado"]
    ELSE IF ctx.shape # "dict" \/ ctx.segmento = "int"
    THEN _emergency_recovery(err, ctx, name)
    ELSE [recovery_successful |-> FALSE,
          method |-> "ai_manager_fallback",
          fallback_content |-> Segmento(ctx),
          recommendation |-> "Configure APIs de IA"]

QuotedWords == {"'AIManager'", "'Client'", "'foo'", "'chat'",
                "'_try_fallback'"}

(* the places where r"'(\w+)' object has no attribute '(\w+)'" matches *)
NoAttributeMatches(error_str) ==
    {i \in 1..(Len(error_str) - 2) :
        /\ error_str[i] \in QuotedWords
        /\ error_str[i + 1] = "object has no attribute"
        /\ error_str[i + 2] \in QuotedWords}

_recover_missing_method(err, ctx, name) ==
    LET error_str == err.message
        found == NoAttributeMatches(error_str)
        first == CHOOSE i \in found : \A j \in found : i <= j
        fallback ==
            [recovery_successful |-> FALSE,
             method |-> "missing_method_fallback",
             error_details |-> error_str,
             recommendation |-> "Verifique implementacao do metodo ausente"]
    IN
    IF found = {} THEN fallback
    ELSE LET object_name == error_str[first]
             method_name == error_str[first + 2]
         IN  IF method_name = "'_try_fallback'"
             THEN [recovery_successful |-> TRUE,
                   method |-> "add_missing_method",
                   missing_method |-> method_name,
                   object |-> object_name,
                   recommendation |-> "Metodo _try_fallback foi adicionado"]
             ELSE IF method_name = "'chat'"
             THEN [recovery_successful |-> TRUE,
                   method |-> "add_chat_interface",
                   missing_method |-> method_name,
                   object |-> object_name,
                   recommendation |-> "Interface de chat foi adicionada"]
             ELSE fallback

(* _normalize_data_structure: a mapping is returned as it is, a list is    *)
(* wrapped as {'items': data, 'count': len(data)}                          *)
_normalize_data_structure(data) ==
    IF data.shape = "dict" THEN data
    ELSE [shape |-> "dict", segmento |-> "absent"]

_recover_data_structure(err, ctx, name) ==
    [recovery_successful |-> TRUE,
     method |-> "data_structure_normalization",
     original_context |-> ctx,
     normalized_context |-> _normalize_data_structure(ctx),
     recommendation |-> "Use contexto normalizado"]

(* the templated payloads of _generate_basic_drivers and its siblings *)
(* lines 259-352: the names of the three drivers, of the two proofs, the   *)
(* keys of the three objection/rebuttal pairs; the generic placeholder has *)
(* no items                                                                *)
GeneratedItems(kind) ==
    CASE kind = "drivers_customizados" ->
            <<"Urgencia", "Autoridade", "Metodo vs Sorte">>
      [] kind = "arsenal_provis_completo" ->
            <<"PROVI 1: Transformacao", "PROVI 2: Metodo vs Caos">>
      [] kind = "objecoes_universais" -> <<"tempo", "dinheiro", "confianca">>
      [] OTHER -> <<>>

FallbackData(kind, ctx) ==
    [kind |-> kind, status |-> "recovered",
     count |-> Len(GeneratedItems(kind)), items |-> GeneratedItems(kind),
     segmento |-> Segmento(ctx)]

(* a strategy that looks for 'visual' before 'driver' *)
ComponentFailure_VisualFirst(err, ctx, name) ==
    IF name.shape # "str" \/ ctx.shape # "dict"
    THEN _emergency_recovery(err, ctx, name)
    ELSE
    LET fallback_data ==
            IF NameContains(name, "visual")
            THEN FallbackData("arsenal_provis_completo", ctx)
            ELSE IF NameContains(name, "driver")
            THEN FallbackData("drivers_customizados", ctx)
            ELSE IF NameContains(name, "anti_objection")
            THEN FallbackData("objecoes_universais", ctx)
            ELSE FallbackData("generic", ctx)
    IN  [recovery_successful |-> TRUE,
         method |-> "component_fallback",
         component_name |-> name,
         fallback_data |-> fallback_data,
         recommendation |-> "Componente recuperado com dados basicos"]

_recover_component_failure(err, ctx, name) ==
    IF name.shape # "str" \/ ctx.shape # "dict"
    THEN _emergency_recovery(err, ctx, name)
    ELSE
    LET fallback_data ==
            IF NameContains(name, "driver")
            THEN FallbackData("drivers_customizados", ctx)
            ELSE IF NameContains(name, "visual")
            THEN FallbackData("arsenal_provis_completo", ctx)
            ELSE IF NameContains(name, "anti_objection")
            THEN FallbackData("objecoes_universais", ctx)
            ELSE FallbackData("generic", ctx)
    IN  [recovery_successful |-> TRUE,
         method |-> "component_fallback",
         component_name |-> name,
         fallback_data |-> fallback_data,
         recommendation |-> "Componente recuperado com dados basicos"]

_recover_validation_failure(err, ctx, name) ==
    [recovery_successful |-> TRUE,
     method |-> "validation_bypass",
     validation_relaxed |-> TRUE,
     original_error |-> err.message,
     recommendation |-> "Validacao relaxada aplicada"]

(* self.recovery_strategies[recovery_strategy](error, context, name) *)
RunStrategy(strategy, err, ctx, name, ai) ==
    CASE strategy = "ai_manager_fallback" ->
            _recover_ai_manager(err, ctx, name, ai)
      [] strategy = "missing_method" -> _recover_missing_method(err, ctx, name)
      [] strategy = "invalid_data_structure" ->
            _recover_data_structure(err, ctx, name)
      [] strategy = "component_failure" ->
            _recover_component_failure(err, ctx, name)
      [] strategy = "validation_failure" ->
            _recover_validation_failure(err, ctx, name)

(* Inputs of recover_from_error *)
MaxMsgLen == 2

ErrorOf(msg) ==
    [type |-> IF Contains(msg, <<"object has no attribute">>)
              THEN "AttributeError" ELSE "Exception",
     message |-> msg]

(* messages of at most MaxMsgLen tokens, and the longer ones the rules and *)
(* the no-attribute pattern tell apart                                     *)
Errors ==
    LET
        Tokens ==
            {"'AIManager'", "'Client'", "object has no attribute",
             "list indices must be integers", "takes", "positional arguments",
             "Invalid", "validation", "'chat'", "'_try_fallback'", "'foo'", "boom"}

        Messages ==
            SeqsUpTo(Tokens, MaxMsgLen)
            \cup {<<q, "object has no attribute", w>> :
                    q \in {"'AIManager'", "'Client'"},
                    w \in {"'foo'", "'chat'", "'_try_fallback'"}}
            \cup {<<"takes", "boom", "positional arguments">>,
                  <<"boom", "'AIManager'", "object has no attribute">>}
    IN  {ErrorOf(m) : m \in Messages}

Context(shape, segmento) == [shape |-> shape, segmento |-> segmento]

Contexts ==
    {Context("dict", sg) : sg \in {"absent", "str", "int"}}
    \cup {Context("list", "absent")}

Name(shape, parts) == [shape |-> shape, parts |-> parts]

ComponentNames ==
    {Name("none", <<>>), Name("int", <<>>), Name("str", <<>>)}
    \cup {Name("str", <<f>>) :
            f \in {"driver", "visual", "anti_objection", "avatar"}}
    \cup {Name("str", <<"avatar", "driver">>),
          Name("str", <<"visual", "driver">>),
          Name("str", <<"visual", "anti_objection">>)}

AIOutcomes == {"raises", "no_provider", "empty", "response"}

NoOutcome == [method |-> "none"]

RecoveryInit ==
    /\ error = ErrorOf(<<>>)
    /\ context = Context("dict", "absent")
    /\ component_name = Name("none", <<>>)
    /\ rpc = "idle"
    /\ recovery_strategy = "None"
    /\ recovery_result = NoOutcome
    /\ outcome = NoOutcome
    /\ ai_result = "unused"
    /\ audit_log = <<>>

(* recover_from_error is entered: lines 48-52 *)
CallRecover ==
    /\ rpc = "idle"
    /\ \E e \in Errors, c \in Contexts, n \in ComponentNames :
          /\ error' = e
          /\ context' = c
          /\ component_name' = n
    /\ rpc' = "salvar_erro"
    /\ UNCHANGED <<recovery_strategy, recovery_result, outcome, ai_result,
                   audit_log>>
    /\ UNCHANGED <<validation_vars, autofix_vars>>

(* line 55: the audit sink stores the raw error *)
SalvarErroReturns ==
    /\ rpc = "salvar_erro"
    /\ audit_log' = Append(audit_log, [call |-> "salvar_erro", ok |-> TRUE])
    /\ rpc' = "identify"
    /\ UNCHANGED <<error, context, component_name, recovery_strategy,
                   recovery_result, outcome, ai_result>>
    /\ UNCHANGED <<validation_vars, autofix_vars>>

(* line 55 raises: lines 72-74 return the emergency outcome *)
SalvarErroRaises ==
    /\ rpc = "salvar_erro"
    /\ audit_log' = Append(audit_log, [call |-> "salvar_erro", ok |-> FALSE])
    /\ outcome' = _emergency_recovery(error, context, component_name)
    /\ rpc' = "done"
    /\ UNCHANGED <<error, context, component_name, recovery_strategy,
                   recovery_result, ai_result>>
    /\ UNCHANGED <<validation_vars, autofix_vars>>

(* lines 58-60 and 68-70: classification, and the generic recovery when no *)
(* rule matches; lines 72-74 when the classification raises                *)
Identify ==
    /\ rpc = "identify"
    /\ IF IdentifyRaises(error.message, component_name)
       THEN /\ outcome' = _emergency_recovery(error, context, component_name)
            /\ rpc' = "done"
            /\ UNCHANGED recovery_strategy
       ELSE LET strategy ==
                    _identify_recovery_strategy(error.message, component_name)
            IN  /\ recovery_strategy' = strategy
                /\ IF strategy = "None"
                   THEN /\ outcome' = _generic_recovery(error, context,
                                                        component_name)
                        /\ rpc' = "done"
                   ELSE /\ rpc' = "strategy"
                        /\ UNCHANGED outcome
    /\ UNCHANGED <<error, context, component_name, recovery_result,
                   ai_result, audit_log>>
    /\ UNCHANGED <<validation_vars, autofix_vars>>

(* line 62: the selected strategy runs; only _recover_ai_manager asks the  *)
(* AI manager                                                              *)
ApplyStrategy ==
    /\ rpc = "strategy"
    /\ \E ai \in IF recovery_strategy = "ai_manager_fallback"
                  THEN AIOutcomes ELSE {"unused"} :
          /\ ai_result' = ai
          /\ recovery_result' = RunStrategy(recovery_strategy, error, context,
                                            component_name, ai)
    /\ rpc' = "salvar_etapa"
    /\ UNCHANGED <<error, context, component_name, recovery_strategy,
                   outcome, audit_log>>
    /\ UNCHANGED <<validation_vars, autofix_vars>>

(* a return of the strategy's result that skips the audit sink *)
SalvarEtapa_Skipped ==
    /\ rpc = "salvar_etapa"
    /\ outcome' = recovery_result
    /\ rpc' = "done"
    /\ UNCHANGED <<error, context, component_name, recovery_strategy,
                   recovery_result, ai_result, audit_log>>
    /\ UNCHANGED <<validation_vars, autofix_vars>>

(* lines 65-67: the audit sink stores the result, which is then returned *)
SalvarEtapaReturns ==
    /\ rpc = "salvar_etapa"
    /\ audit_log' = Append(audit_log, [call |-> "salvar_etapa", ok |-> TRUE])
    /\ outcome' = recovery_result
    /\ rpc' = "done"
    /\ UNCHANGED <<error, context, component_name, recovery_strategy,
                   recovery_result, ai_result>>
    /\ UNCHANGED <<validation_vars, autofix_vars>>

(* line 65 raises: lines 72-74 return the emergency outcome *)
SalvarEtapaRaises ==
    /\ rpc = "salvar_etapa"
    /\ audit_log' = Append(audit_log, [call |-> "salvar_etapa", ok |-> FALSE])
    /\ outcome' = _emergency_recovery(error, context, component_name)
    /\ rpc' = "done"
    /\ UNCHANGED <<error, context, component_name, recovery_strategy,
                   recovery_result, ai_result>>
    /\ UNCHANGED <<validation_vars, autofix_vars>>

(* the strategy method is called by itself: lines 210-234 *)
CallComponentFailure ==
    /\ rpc = "idle"
    /\ \E e \in Errors, c \in Contexts, n \in ComponentNames :
          /\ error' = e
          /\ context' = c
          /\ component_name' = n
          /\ recovery_result' = _recover_component_failure(e, c, n)
    /\ rpc' = "strategy_returned"
    /\ UNCHANGED <<recovery_strategy, outcome, ai_result, audit_log>>
    /\ UNCHANGED <<validation_vars, autofix_vars>>

RecoveryNext ==
    \/ CallRecover
    \/ SalvarErroReturns
    \/ SalvarErroRaises
    \/ Identify
    \/ ApplyStrategy
    \/ SalvarEtapaReturns
    \/ SalvarEtapaRaises

----------------------------------------------------------------------------
(* Auto-fixer: auto_fix_common_errors.                                     *)
(* fixed_data = analysis_data.copy() copies the top-level mapping only:    *)
(* the objects under its keys are the caller's own (variable nested), and  *)
(* only a top-level assignment (fixed_data['metadata'] = ...) is private   *)
(* to fixed_data.                                                          *)
(* An entry is [shape, <nested key>]: shape "absent" (key not in the       *)
(* record) | "dict" | "list" (anything that is no mapping).  A list value  *)
(* is [shape, items], shape "absent" | "none" | "list".                    *)
(* gatilhos_cialdini is [shape, counts], shape "absent" | "none" | "list"  *)
(* | "dict", counts the mapping from trigger name to count.                *)

MinDrivers == 3
MinProvis == 2

OriginalItem(i) ==
    [nome |-> Msg("original", i), auto_fixed |-> FALSE]

(* lines 437-442; the name embeds len(drivers_list) + 1 *)
BasicDriver(position) ==
    [nome |-> Msg("Driver Basico", position), auto_fixed |-> TRUE]

(* lines 453-458 *)
BasicProvi(position) ==
    [nome |-> Msg("PROVI: Prova Basica", position), auto_fixed |-> TRUE]

(* a fixer that appends one driver and stops *)
PadDrivers_OneItem(items) ==
    IF Len(items) >= MinDrivers THEN items
    ELSE Append(items, BasicDriver(Len(items) + 1))

(* lines 436-442: while len(drivers_list) < 3: drivers_list.append(...) *)
PadDrivers(items) ==
    IF Len(items) >= MinDrivers THEN items
    ELSE items \o [k \in 1..(MinDrivers - Len(items)) |->
                      BasicDriver(Len(items) + k)]

(* lines 452-458: while len(provas_list) < 2: provas_list.append(...) *)
PadProvas(items) ==
    IF Len(items) >= MinProvis THEN items
    ELSE items \o [k \in 1..(MinProvis - Len(items)) |->
                      BasicProvi(Len(items) + k)]

DriversEntry(shape, lst) == [shape |-> shape, drivers_customizados |-> lst]
ProvasEntry(shape, lst) == [shape |-> shape, arsenal_provis_completo |-> lst]
CialdiniEntry(shape, counts) == [shape |-> shape, counts |-> counts]
DensidadeEntry(shape, cialdini) ==
    [shape |-> shape, gatilhos_cialdini |-> cialdini]
MetricasEntry(shape, densidade) ==
    [shape |-> shape, densidade_persuasiva |-> densidade]

NoCounts == [k \in {} |-> 0]
AbsentCialdini == CialdiniEntry("absent", NoCounts)
AbsentDensidadeEntry == DensidadeEntry("absent", AbsentCialdini)

(* lines 471-478 *)
CialdiniDefaults ==
    [reciprocidade |-> 2, autoridade |-> 3, prova_social |-> 4,
     escassez |-> 1, compromisso |-> 2, afinidade |-> 3]

(* cialdini.update({...}) *)
UpdateCounts(counts) ==
    [k \in DOMAIN counts \cup DOMAIN CialdiniDefaults |->
        IF k \in DOMAIN CialdiniDefaults THEN CialdiniDefaults[k]
        ELSE counts[k]]

(* a test that is satisfied by one zero counter *)
AllZero_AnyZero(counts) == \E k \in DOMAIN counts : counts[k] = 0

(* all(count == 0 for count in cialdini.values()) *)
AllZero(counts) == \A k \in DOMAIN counts : counts[k] = 0

(* Fix 1, lines 430-443 *)
DriversFixApplies(drivers) ==
    drivers.shape = "dict" /\ drivers.drivers_customizados.shape # "absent"

(* len(None) *)
DriversFixRaises(drivers) ==
    DriversFixApplies(drivers) /\ drivers.drivers_customizados.shape = "none"

DriversPadded(drivers) ==
    /\ DriversFixApplies(drivers)
    /\ drivers.drivers_customizados.shape = "list"
    /\ Len(drivers.drivers_customizados.items) < MinDrivers

FixDriversEntry(drivers) ==
    IF DriversPadded(drivers)
    THEN [drivers EXCEPT !.drivers_customizados.items =
                             PadDrivers(@)]
    ELSE drivers

(* Fix 2, lines 446-460 *)
ProvasFixRaises(provas) ==
    provas.shape = "dict" /\ provas.arsenal_provis_completo.shape = "none"

ProvasPadded(provas) ==
    /\ provas.shape = "dict"
    /\ provas.arsenal_provis_completo.shape \in {"absent", "list"}
    /\ Len(provas.arsenal_provis_completo.items) < MinProvis

(* the padded list, a fresh one when the key was absent, is stored under   *)
(* the key of the mapping itself (line 459)                                *)
FixProvasEntry(provas) ==
    IF ProvasPadded(provas)
    THEN [provas EXCEPT !.arsenal_provis_completo =
             ListValue("list", PadProvas(@.items))]
    ELSE provas

(* Fix 3, lines 463-479 *)
(* densidade.get on None or a list, cialdini.values() on None or a list *)
CialdiniFixRaises(metricas) ==
    /\ metricas.shape = "dict"
    /\ \/ metricas.densidade_persuasiva.shape \in {"none", "list"}
       \/ /\ metricas.densidade_persuasiva.shape = "dict"
          /\ metricas.densidade_persuasiva.gatilhos_cialdini.shape
                \in {"none", "list"}

(* the counters read at line 467: {} when either level is absent *)
CialdiniRead(metricas) ==
    IF /\ metricas.densidade_persuasiva.shape = "dict"
       /\ metricas.densidade_persuasiva.gatilhos_cialdini.shape = "dict"
    THEN metricas.densidade_persuasiva.gatilhos_cialdini.counts
    ELSE NoCounts

CialdiniFixReported(metricas) ==
    /\ metricas.shape = "dict"
    /\ ~CialdiniFixRaises(metricas)
    /\ AllZero(CialdiniRead(metricas))

(* the update reaches the record only when the counters are an object of   *)
(* the record; the {} defaults of .get are dropped after the update        *)
FixMetricasEntry(metricas) ==
    IF /\ CialdiniFixReported(metricas)
       /\ metricas.densidade_persuasiva.shape = "dict"
       /\ metricas.densidade_persuasiva.gatilhos_cialdini.shape = "dict"
    THEN [metricas EXCEPT
            !.densidade_persuasiva.gatilhos_cialdini.counts = UpdateCounts(@)]
    ELSE metricas

(* 'metadata' entry: [shape, auto_fixed, fixes_applied, quality_score];    *)
(* shape "absent" | "none" | "dict"                                        *)
MetadataEntry(shape, auto_fixed, fixes, quality_score) ==
    [shape |-> shape, auto_fixed |-> auto_fixed, fixes_applied |-> fixes,
     quality_score |-> quality_score]

(* lines 483-490; metadata['fixes_applied'] is the list fixes_applied      *)
(* itself, so it shows the 'metadata_added' appended at line 490           *)
AddedMetadata(fixes) ==
    MetadataEntry("dict", TRUE, Append(fixes, "metadata_added"), Rat(75))

(* a record as its holder sees it: the top-level entries, dereferenced *)
RecordValue(objects, metadata) ==
    [drivers_mentais_customizados |-> objects.drivers_mentais_customizados,
     provas_visuais_arsenal |-> objects.provas_visuais_arsenal,
     metricas_forenses_detalhadas |-> objects.metricas_forenses_detalhadas,
     metadata |-> metadata]

(* the caller's record, and the copy made at line 425 *)
CallerRecord == RecordValue(nested, input_metadata)
FixedData == RecordValue(nested, fixed_metadata)

(* lines 502-509 *)
AutoFixFailure(err) ==
    [auto_fix_successful |-> FALSE,
     error |-> err,
     original_data |-> CallerRecord,
     recommendation |-> "Auto-fix falhou - use dados originais"]

(* lines 494-500 *)
AutoFixSuccess ==
    [auto_fix_successful |-> TRUE,
     fixes_applied |-> fixes_applied,
     fixed_data |-> FixedData,
     original_issues |-> Len(fixes_applied),
     recommendation |->
        "Dados corrigidos automaticamente - qualidade basica garantida"]

(* Inputs of auto_fix_common_errors *)
MaxItems == 3

(* the arguments the model hands to auto_fix_common_errors: the objects    *)
(* under the three keys the fixer reads, and the 'metadata' entry          *)
AutoFixInputs ==
    LET
        ItemLists ==
            {ListValue("list", [i \in 1..n |-> OriginalItem(i)]) : n \in 0..MaxItems}
            \cup {AbsentList, ListValue("none", <<>>)}

        DriversEntries ==
            {DriversEntry("dict", l) : l \in ItemLists}
            \cup {DriversEntry(sh, AbsentList) : sh \in {"absent", "list"}}

        ProvasEntries ==
            {ProvasEntry("dict", l) : l \in ItemLists}
            \cup {ProvasEntry(sh, AbsentList) : sh \in {"absent", "list"}}

        CountsInputs ==
            {NoCounts,
             [k \in DOMAIN CialdiniDefaults |-> 0],
             [k \in DOMAIN CialdiniDefaults |-> IF k = "autoridade" THEN 1 ELSE 0],
             [k \in {"reciprocidade"} |-> 0],
             [k \in {"outro"} |-> 0],
             [k \in {"outro"} |-> 2]}

        CialdiniEntries ==
            {CialdiniEntry("dict", c) : c \in CountsInputs}
            \cup {CialdiniEntry(sh, NoCounts) : sh \in {"absent", "none", "list"}}

        DensidadeEntries ==
            {DensidadeEntry("dict", c) : c \in CialdiniEntries}
            \cup {DensidadeEntry(sh, AbsentCialdini) :
                    sh \in {"absent", "none", "list"}}

        MetricasEntries ==
            {MetricasEntry("dict", d) : d \in DensidadeEntries}
            \cup {MetricasEntry(sh, AbsentDensidadeEntry) : sh \in {"absent", "list"}}

        MetadataEntries ==
            {MetadataEntry(sh, FALSE, <<>>, Rat(0)) : sh \in {"absent", "none", "dict"}}
    IN  {[drivers_mentais_customizados |-> d,
          provas_visuais_arsenal |-> p,
          metricas_forenses_detalhadas |-> m,
          metadata |-> meta] :
            d \in DriversEntries, p \in ProvasEntries,
            m \in MetricasEntries, meta \in MetadataEntries}

NoFixResult == [auto_fix_successful |-> FALSE, recommendation |-> "none"]

AutoFixInit ==
    /\ nested = [drivers_mentais_customizados |->
                     DriversEntry("absent", AbsentList),
                 provas_visuais_arsenal |-> ProvasEntry("absent", AbsentList),
                 metricas_forenses_detalhadas |->
                     MetricasEntry("absent", AbsentDensidadeEntry)]
    /\ input_metadata = MetadataEntry("absent", FALSE, <<>>, Rat(0))
    /\ fixed_metadata = MetadataEntry("absent", FALSE, <<>>, Rat(0))
    /\ data_before = RecordValue(nested, input_metadata)
    /\ fixes_applied = <<>>
    /\ apc = "idle"
    /\ fix_result = NoFixResult
    /\ pass_number = 0

(* auto_fix_common_errors is entered: lines 425-426 *)
CallAutoFix ==
    /\ apc = "idle"
    /\ \E input \in AutoFixInputs :
          /\ nested' = [drivers_mentais_customizados |->
                            input.drivers_mentais_customizados,
                        provas_visuais_arsenal |->
                            input.provas_visuais_arsenal,
                        metricas_forenses_detalhadas |->
                            input.metricas_forenses_detalhadas]
          /\ input_metadata' = input.metadata
          /\ fixed_metadata' = input.metadata
          /\ data_before' = input
    /\ fixes_applied' = <<>>
    /\ apc' = "drivers"
    /\ pass_number' = 1
    /\ UNCHANGED fix_result
    /\ UNCHANGED <<validation_vars, recovery_vars, reentrant_vars>>

(* Fix 1, lines 430-443; an exception goes to lines 502-509 *)
FixDrivers ==
    /\ apc = "drivers"
    /\ LET drivers == nested.drivers_mentais_customizados
       IN  IF DriversFixRaises(drivers)
           THEN /\ fix_result' = AutoFixFailure(
                        "object of type 'NoneType' has no len()")
                /\ apc' = "caught"
                /\ UNCHANGED <<nested, fixes_applied>>
           ELSE /\ nested' = [nested EXCEPT !.drivers_mentais_customizados =
                                               FixDriversEntry(drivers)]
                /\ fixes_applied' =
                      IF DriversPadded(drivers)
                      THEN Append(fixes_applied, "drivers_mentais_minimum")
                      ELSE fixes_applied
                /\ apc' = "provas"
                /\ UNCHANGED fix_result
    /\ UNCHANGED <<input_metadata, fixed_metadata, data_before>>
    /\ UNCHANGED <<validation_vars, recovery_vars, reentrant_vars,
                   pass_number>>

(* Fix 2, lines 446-460 *)
FixProvas ==
    /\ apc = "provas"
    /\ LET provas == nested.provas_visuais_arsenal
       IN  IF ProvasFixRaises(provas)
           THEN /\ fix_result' = AutoFixFailure(
                        "object of type 'NoneType' has no len()")
                /\ apc' = "caught"
                /\ UNCHANGED <<nested, fixes_applied>>
           ELSE /\ nested' = [nested EXCEPT !.provas_visuais_arsenal =
                                               FixProvasEntry(provas)]
                /\ fixes_applied' =
                      IF ProvasPadded(provas)
                      THEN Append(fixes_applied, "provas_visuais_minimum")
                      ELSE fixes_applied
                /\ apc' = "cialdini"
                /\ UNCHANGED fix_result
    /\ UNCHANGED <<input_metadata, fixed_metadata, data_before>>
    /\ UNCHANGED <<validation_vars, recovery_vars, reentrant_vars,
                   pass_number>>

(* Fix 3, lines 463-479 *)
FixCialdini ==
    /\ apc = "cialdini"
    /\ LET metricas == nested.metricas_forenses_detalhadas
       IN  IF CialdiniFixRaises(metricas)
           THEN /\ fix_result' = AutoFixFailure("object has no attribute")
                /\ apc' = "caught"
                /\ UNCHANGED <<nested, fixes_applied>>
           ELSE /\ nested' = [nested EXCEPT !.metricas_forenses_detalhadas =
                                               FixMetricasEntry(metricas)]
                /\ fixes_applied' =
                      IF CialdiniFixReported(metricas)
                      THEN Append(fixes_applied, "cialdini_triggers_basic")
                      ELSE fixes_applied
                /\ apc' = "metadata"
                /\ UNCHANGED fix_result
    /\ UNCHANGED <<input_metadata, fixed_metadata, data_before>>
    /\ UNCHANGED <<validation_vars, recovery_vars, reentrant_vars,
                   pass_number>>

(* Fix 4, lines 482-490 *)
FixMetadata ==
    /\ apc = "metadata"
    /\ IF fixed_metadata.shape = "absent"
       THEN /\ fixed_metadata' = AddedMetadata(fixes_applied)
            /\ fixes_applied' = Append(fixes_applied, "metadata_added")
       ELSE UNCHANGED <<fixed_metadata, fixes_applied>>
    /\ apc' = "return"
    /\ UNCHANGED <<nested, input_metadata, data_before, fix_result>>
    /\ UNCHANGED <<validation_vars, recovery_vars, reentrant_vars,
                   pass_number>>

(* lines 492-500 *)
ReturnFixed ==
    /\ apc = "return"
    /\ fix_result' = AutoFixSuccess
    /\ apc' = "done"
    /\ UNCHANGED <<nested, input_metadata, fixed_metadata, data_before,
                   fixes_applied>>
    /\ UNCHANGED <<validation_vars, recovery_vars, reentrant_vars,
                   pass_number>>

(* the caller hands the fixed_data of a successful call to the method      *)
(* again: lines 425-426 with analysis_data = fixed_data                    *)
CallAutoFixAgain ==
    /\ apc = "done"
    /\ pass_number = 1
    /\ fix_result.auto_fix_successful
    /\ input_metadata' = fixed_metadata
    /\ data_before' = FixedData
    /\ fixes_applied' = <<>>
    /\ apc' = "drivers"
    /\ pass_number' = 2
    /\ UNCHANGED <<nested, fixed_metadata, fix_result>>
    /\ UNCHANGED <<validation_vars, recovery_vars, reentrant_vars>>

AutoFixNext ==
    \/ CallAutoFix
    \/ CallAutoFixAgain
    \/ FixDrivers
    \/ FixProvas
    \/ FixCialdini
    \/ FixMetadata
    \/ ReturnFixed

----------------------------------------------------------------------------
(* Two invocations of auto_fix_common_errors given the same record.        *)
(* Both copies made at line 425 refer to the objects of `nested`; a step   *)
(* is a stretch of the method between two points where the interpreter may *)
(* switch threads: the test of a while loop and the append of its body are *)
(* separate steps.  Fixes 3 and 4 and the return are taken as one step.    *)

Invocations == {1, 2}

(* lines 502-509 *)
InvocationFailure(err) ==
    [auto_fix_successful |-> FALSE, fixes_applied |-> <<>>, error |-> err]

(* provas_list of line 449 is the record's list (ref "record") or the []   *)
(* default of .get (ref "fresh", with its items); the items of invocation  *)
(* t's provas_list                                                         *)
ProvasListItems(t) ==
    IF inv_provas_list[t].ref = "record"
    THEN nested.provas_visuais_arsenal.arsenal_provis_completo.items
    ELSE inv_provas_list[t].items

ReentrantInit ==
    /\ inv_pc = [t \in Invocations |-> "idle"]
    /\ inv_fixes_applied = [t \in Invocations |-> <<>>]
    /\ inv_fixed_metadata =
          [t \in Invocations |-> MetadataEntry("absent", FALSE, <<>>, Rat(0))]
    /\ inv_provas_list =
          [t \in Invocations |-> [ref |-> "record", items |-> <<>>]]
    /\ inv_result = [t \in Invocations |-> InvocationFailure("none")]

(* both callers hold the same record and enter the method: lines 425-426 *)
CallTwice ==
    /\ \A t \in Invocations : inv_pc[t] = "idle"
    /\ \E input \in
            {i \in AutoFixInputs :
                /\ i.metricas_forenses_detalhadas.densidade_persuasiva.shape
                      \in {"absent", "none", "dict"}
                /\ i.metricas_forenses_detalhadas.densidade_persuasiva
                      .gatilhos_cialdini.shape \in {"absent", "dict"}
                /\ i.metadata.shape \in {"absent", "dict"}} :
          /\ nested' = [drivers_mentais_customizados |->
                            input.drivers_mentais_customizados,
                        provas_visuais_arsenal |->
                            input.provas_visuais_arsenal,
                        metricas_forenses_detalhadas |->
                            input.metricas_forenses_detalhadas]
          /\ input_metadata' = input.metadata
          /\ inv_fixed_metadata' = [t \in Invocations |-> input.metadata]
          /\ data_before' = input
    /\ inv_pc' = [t \in Invocations |-> "drivers"]
    /\ UNCHANGED <<inv_fixes_applied, inv_provas_list, inv_result>>
    /\ UNCHANGED <<fixed_metadata, fixes_applied, apc, fix_result, pass_number>>
    /\ UNCHANGED <<validation_vars, recovery_vars>>

(* lines 430-434: the tests that guard Fix 1 *)
CheckDrivers(t) ==
    /\ inv_pc[t] = "drivers"
    /\ LET drivers == nested.drivers_mentais_customizados
       IN  IF DriversFixRaises(drivers)
           THEN /\ inv_result' = [inv_result EXCEPT ![t] = InvocationFailure(
                        "object of type 'NoneType' has no len()")]
                /\ inv_pc' = [inv_pc EXCEPT ![t] = "caught"]
           ELSE /\ inv_pc' = [inv_pc EXCEPT ![t] =
                        IF DriversPadded(drivers) THEN "drivers_while"
                        ELSE "provas"]
                /\ UNCHANGED inv_result
    /\ UNCHANGED <<nested, input_metadata, data_before, inv_fixes_applied,
                   inv_fixed_metadata, inv_provas_list>>
    /\ UNCHANGED <<fixed_metadata, fixes_applied, apc, fix_result, pass_number>>
    /\ UNCHANGED <<validation_vars, recovery_vars>>

(* line 436: the test of the loop; line 443 when it fails *)
WhileDrivers(t) ==
    /\ inv_pc[t] = "drivers_while"
    /\ IF Len(nested.drivers_mentais_customizados.drivers_customizados.items)
            < MinDrivers
       THEN /\ inv_pc' = [inv_pc EXCEPT ![t] = "drivers_append"]
            /\ UNCHANGED inv_fixes_applied
       ELSE /\ inv_pc' = [inv_pc EXCEPT ![t] = "provas"]
            /\ inv_fixes_applied' = [inv_fixes_applied EXCEPT ![t] =
                                        Append(@, "drivers_mentais_minimum")]
    /\ UNCHANGED <<nested, input_metadata, data_before, inv_fixed_metadata,
                   inv_provas_list, inv_result>>
    /\ UNCHANGED <<fixed_metadata, fixes_applied, apc, fix_result, pass_number>>
    /\ UNCHANGED <<validation_vars, recovery_vars>>

(* lines 437-442: the body of the loop *)
AppendDriver(t) ==
    /\ inv_pc[t] = "drivers_append"
    /\ nested' = [nested EXCEPT
            !.drivers_mentais_customizados.drivers_customizados.items =
                Append(@, BasicDriver(Len(@) + 1))]
    /\ inv_pc' = [inv_pc EXCEPT ![t] = "drivers_while"]
    /\ UNCHANGED <<input_metadata, data_before, inv_fixes_applied,
                   inv_fixed_metadata, inv_provas_list, inv_result>>
    /\ UNCHANGED <<fixed_metadata, fixes_applied, apc, fix_result, pass_number>>
    /\ UNCHANGED <<validation_vars, recovery_vars>>

(* lines 446-450: the tests that guard Fix 2, and provas_list *)
CheckProvas(t) ==
    /\ inv_pc[t] = "provas"
    /\ LET provas == nested.provas_visuais_arsenal
       IN  IF ProvasFixRaises(provas)
           THEN /\ inv_result' = [inv_result EXCEPT ![t] = InvocationFailure(
                        "object of type 'NoneType' has no len()")]
                /\ inv_pc' = [inv_pc EXCEPT ![t] = "caught"]
                /\ UNCHANGED inv_provas_list
           ELSE /\ inv_pc' = [inv_pc EXCEPT ![t] =
                        IF ProvasPadded(provas) THEN "provas_while"
                        ELSE "finish"]
                /\ inv_provas_list' = [inv_provas_list EXCEPT ![t] =
                        IF /\ provas.shape = "dict"
                           /\ provas.arsenal_provis_completo.shape = "absent"
                        THEN [ref |-> "fresh", items |-> <<>>]
                        ELSE [ref |-> "record", items |-> <<>>]]
                /\ UNCHANGED inv_result
    /\ UNCHANGED <<nested, input_metadata, data_before, inv_fixes_applied,
                   inv_fixed_metadata>>
    /\ UNCHANGED <<fixed_metadata, fixes_applied, apc, fix_result, pass_number>>
    /\ UNCHANGED <<validation_vars, recovery_vars>>

(* line 452: the test of the loop *)
WhileProvas(t) ==
    /\ inv_pc[t] = "provas_while"
    /\ inv_pc' = [inv_pc EXCEPT ![t] =
            IF Len(ProvasListItems(t)) < MinProvis THEN "provas_append"
            ELSE "provas_store"]
    /\ UNCHANGED <<nested, input_metadata, data_before, inv_fixes_applied,
                   inv_fixed_metadata, inv_provas_list, inv_result>>
    /\ UNCHANGED <<fixed_metadata, fixes_applied, apc, fix_result, pass_number>>
    /\ UNCHANGED <<validation_vars, recovery_vars>>

(* lines 453-458: the body of the loop *)
AppendProvi(t) ==
    /\ inv_pc[t] = "provas_append"
    /\ IF inv_provas_list[t].ref = "record"
       THEN /\ nested' = [nested EXCEPT
                    !.provas_visuais_arsenal.arsenal_provis_completo.items =
                        Append(@, BasicProvi(Len(@) + 1))]
            /\ UNCHANGED inv_provas_list
       ELSE /\ inv_provas_list' = [inv_provas_list EXCEPT ![t].items =
                                      Append(@, BasicProvi(Len(@) + 1))]
            /\ UNCHANGED nested
    /\ inv_pc' = [inv_pc EXCEPT ![t] = "provas_while"]
    /\ UNCHANGED <<input_metadata, data_before, inv_fixes_applied,
                   inv_fixed_metadata, inv_result>>
    /\ UNCHANGED <<fixed_metadata, fixes_applied, apc, fix_result, pass_number>>
    /\ UNCHANGED <<validation_vars, recovery_vars>>

(* lines 459-460: provas_list becomes the record's list *)
StoreProvas(t) ==
    /\ inv_pc[t] = "provas_store"
    /\ nested' = [nested EXCEPT
            !.provas_visuais_arsenal.arsenal_provis_completo =
                ListValue("list", ProvasListItems(t))]
    /\ inv_provas_list' = [inv_provas_list EXCEPT ![t] =
                              [ref |-> "record", items |-> <<>>]]
    /\ inv_fixes_applied' = [inv_fixes_applied EXCEPT ![t] =
                                Append(@, "provas_visuais_minimum")]
    /\ inv_pc' = [inv_pc EXCEPT ![t] = "finish"]
    /\ UNCHANGED <<input_metadata, data_before, inv_fixed_metadata,
                   inv_result>>
    /\ UNCHANGED <<fixed_metadata, fixes_applied, apc, fix_result, pass_number>>
    /\ UNCHANGED <<validation_vars, recovery_vars>>

(* lines 462-509: Fix 3, Fix 4 and the return *)
FinishInvocation(t) ==
    /\ inv_pc[t] = "finish"
    /\ LET metricas == nested.metricas_forenses_detalhadas
           fixes3 == IF CialdiniFixReported(metricas)
                     THEN Append(inv_fixes_applied[t],
                                 "cialdini_triggers_basic")
                     ELSE inv_fixes_applied[t]
           absent == inv_fixed_metadata[t].shape = "absent"
           fixes4 == IF absent THEN Append(fixes3, "metadata_added")
                     ELSE fixes3
       IN  IF CialdiniFixRaises(metricas)
           THEN /\ inv_result' = [inv_result EXCEPT ![t] =
                        InvocationFailure("object has no attribute")]
                /\ inv_pc' = [inv_pc EXCEPT ![t] = "caught"]
                /\ UNCHANGED <<nested, inv_fixes_applied, inv_fixed_metadata>>
           ELSE /\ nested' = [nested EXCEPT !.metricas_forenses_detalhadas =
                                               FixMetricasEntry(metricas)]
                /\ inv_fixes_applied' =
                      [inv_fixes_applied EXCEPT ![t] = fixes4]
                /\ inv_fixed_metadata' = [inv_fixed_metadata EXCEPT ![t] =
                        IF absent THEN AddedMetadata(fixes3) ELSE @]
                /\ inv_result' = [inv_result EXCEPT ![t] =
                        [auto_fix_successful |-> TRUE,
                         fixes_applied |-> fixes4,
                         error |-> "none"]]
                /\ inv_pc' = [inv_pc EXCEPT ![t] = "done"]
    /\ UNCHANGED <<input_metadata, data_before, inv_provas_list>>
    /\ UNCHANGED <<fixed_metadata, fixes_applied, apc, fix_result, pass_number>>
    /\ UNCHANGED <<validation_vars, recovery_vars>>

ReentrantNext ==
    \/ CallTwice
    \/ \E t \in Invocations : CheckDrivers(t)
    \/ \E t \in Invocations : WhileDrivers(t)
    \/ \E t \in Invocations : AppendDriver(t)
    \/ \E t \in Invocations : CheckProvas(t)
    \/ \E t \in Invocations : WhileProvas(t)
    \/ \E t \in Invocations : AppendProvi(t)
    \/ \E t \in Invocations : StoreProvas(t)
    \/ \E t \in Invocations : FinishInvocation(t)

----------------------------------------------------------------------------
(* validate_complete_analysis applied to the fixed_data of a successful    *)
(* auto_fix_common_errors call.  A record is held in two parts: the        *)
(* entries the validation engine reads (a member of Records) and the       *)
(* entries the fixer reads (nested and the 'metadata' entry); the two      *)
(* methods meet at 'metricas_forenses_detalhadas' and 'metadata', which    *)
(* the compliance check reads for their truth value.                       *)

(* lines 43-89: the loop over validation_rules, the score and the verdict *)
ScoredComponents(data) ==
    LET s0 == [total |-> Rat(0), max |-> Rat(0),
               result |-> NewValidationResult]
        s1 == LoopBody(data, validation_rules[1], 1, s0.total, s0.max,
                       s0.result)
        s2 == LoopBody(data, validation_rules[2], 2, s1.total, s1.max,
                       s1.result)
        s3 == LoopBody(data, validation_rules[3], 3, s2.total, s2.max,
                       s2.result)
        s4 == LoopBody(data, validation_rules[4], 4, s3.total, s3.max,
                       s3.result)
        s5 == LoopBody(data, validation_rules[5], 5, s4.total, s4.max,
                       s4.result)
        quality_score == QualityScore(s5.total, s5.max)
    IN  [s5.result EXCEPT
            !.quality_score = quality_score,
            !.overall_valid =
                OverallValid(quality_score, s5.result.critical_issues)]

(* a validation whose verdict also asks for scientific compliance *)
Validate_VerdictNeedsCompliance(data) ==
    LET r1 == [ScoredComponents(data) EXCEPT
                  !.scientific_compliance =
                      _check_scientific_compliance(data)]
        r2 == [r1 EXCEPT !.overall_valid = @ /\ r1.scientific_compliance]
    IN  [r2 EXCEPT !.recommendations = _generate_recommendations(r2)]

(* the value validate_complete_analysis returns: lines 43-99 *)
validate_complete_analysis(data) ==
    LET r1 == [ScoredComponents(data) EXCEPT
                  !.scientific_compliance =
                      _check_scientific_compliance(data)]
    IN  [r1 EXCEPT !.recommendations = _generate_recommendations(r1)]

(* the record as validate_complete_analysis reads it: the validators'      *)
(* entries of `base`, the search results, and the truth value of the       *)
(* fixer's metricas_forenses_detalhadas ({} is false) and of               *)
(* metadata.quality_score                                                  *)
AsAnalysisData(base, pesquisa, objects, meta) ==
    [base EXCEPT
        !.pesquisa_web_massiva = pesquisa,
        !.metricas_forenses_detalhadas =
            \/ objects.metricas_forenses_detalhadas.shape = "list"
            \/ /\ objects.metricas_forenses_detalhadas.shape = "dict"
               /\ objects.metricas_forenses_detalhadas.densidade_persuasiva
                     .shape # "absent",
        !.metadata =
            Metadata(meta.shape,
                     meta.shape = "dict" /\ meta.quality_score[1] # 0)]

(* the validators' entries of the records handed to both methods: the     *)
(* empty record, and records with 19 or 20 drivers, 5 complete proofs, the *)
(* three universal objections, a full avatar and 4 or 2 intense emotions   *)
SharedRecords ==
    {r \in Records :
        \/ r = EmptyRecord
        \/ /\ r.shape = "dict"
           /\ r.pesquisa_web_massiva.shape = "absent"
           /\ r.drivers_mentais.shape = "dict"
           /\ Len(r.drivers_mentais.items) >= 19
           /\ r.provas_visuais.shape = "list"
           /\ r.sistema_anti_objecao.shape = "dict"
           /\ r.sistema_anti_objecao.objecoes_universais.keys
                 = {"tempo", "dinheiro", "confianca"}
           /\ r.avatar_ultra_detalhado.shape = "dict"
           /\ r.avatar_ultra_detalhado.dores_viscerais.count = 15
           /\ r.metricas_forenses.shape = "dict"
           /\ r.metricas_forenses.intensidade_emocional.shape = "dict"}

SharedPesquisa ==
    {AbsentPesquisa,
     Pesquisa("dict", ListValue("list",
                                <<[isdict |-> TRUE, url |-> "trusted"]>>))}

(* auto_fix_common_errors is entered with a record that has the entries    *)
(* of both methods (lines 425-426); analysis_data holds the record as      *)
(* validate_complete_analysis would read it                                *)
CallAutoFixOnRecord ==
    /\ apc = "idle"
    /\ vpc = "idle" /\ spc = "idle"
    /\ \E input \in AutoFixInputs, base \in SharedRecords,
          pesquisa \in SharedPesquisa :
          /\ nested' = [drivers_mentais_customizados |->
                            input.drivers_mentais_customizados,
                        provas_visuais_arsenal |->
                            input.provas_visuais_arsenal,
                        metricas_forenses_detalhadas |->
                            input.metricas_forenses_detalhadas]
          /\ input_metadata' = input.metadata
          /\ fixed_metadata' = input.metadata
          /\ data_before' = input
          /\ analysis_data' = AsAnalysisData(base, pesquisa, input,
                                             input.metadata)
    /\ fixes_applied' = <<>>
    /\ apc' = "drivers"
    /\ pass_number' = 1
    /\ UNCHANGED <<vpc, vi, total_score, max_score, validation_result, spc,
                   source_validation>>
    /\ UNCHANGED <<fix_result, recovery_vars, reentrant_vars>>

(* validate_complete_analysis is entered with the fixed_data of the        *)
(* successful call: lines 43-55                                            *)
ValidateFixedData ==
    /\ apc = "done" /\ pass_number = 1
    /\ fix_result.auto_fix_successful
    /\ vpc = "idle" /\ spc = "idle"
    /\ analysis_data' =
          AsAnalysisData(analysis_data, analysis_data.pesquisa_web_massiva,
                         nested, fixed_metadata)
    /\ vpc' = "loop"
    /\ vi' = 1
    /\ total_score' = Rat(0)
    /\ max_score' = Rat(0)
    /\ validation_result' = NewValidationResult
    /\ UNCHANGED <<spc, source_validation>>
    /\ UNCHANGED <<recovery_vars, autofix_vars>>

FixThenValidateNext ==
    \/ CallAutoFixOnRecord
    \/ FixDrivers
    \/ FixProvas
    \/ FixCialdini
    \/ FixMetadata
    \/ ReturnFixed
    \/ ValidateFixedData
    \/ ValidateComponent
    \/ ComputeScore
    \/ FinishValidation

----------------------------------------------------------------------------
(* Specifications *)

Init == ValidationInit /\ RecoveryInit /\ AutoFixInit /\ ReentrantInit

SpecValidation == Init /\ [][ValidationNext]_vars

SpecRecovery == Init /\ [][RecoveryNext]_vars

SpecAutoFix == Init /\ [][AutoFixNext]_vars

SpecReentrant == Init /\ [][ReentrantNext]_vars

SpecComponentFailure == Init /\ [][CallComponentFailure]_vars

SpecFixThenValidate == Init /\ [][FixThenValidateNext]_vars

----------------------------------------------------------------------------
(* Properties of the validation engine *)

Returned == vpc = "done"
ScoreComputed == vpc \in {"compliance", "done", "raised"}
ComponentsRun == DOMAIN validation_result.component_validations
AllComponents == {validation_rules[k] : k \in DOMAIN validation_rules}

(* every component's critical issues in validator order, with one failure  *)
(* entry for a component whose validation raised                           *)
RECURSIVE AggregatedIssues(_, _)
AggregatedIssues(result, k) ==
    IF k = 0 THEN <<>>
    ELSE AggregatedIssues(result, k - 1)
         \o (IF validation_rules[k] \in DOMAIN result.component_validations
             THEN result.component_validations[validation_rules[k]]
                     .critical_issues
             ELSE <<Msg("Falha na validacao de", k)>>)

(* C1: in every returned result, overall_valid is true exactly when        *)
(* quality_score >= 80.0 and the aggregated critical_issues list (all      *)
(* components' critical issues plus validator-failure entries) is empty.   *)
C1_OverallValidIff ==
    Returned =>
        /\ validation_result.critical_issues =
               AggregatedIssues(validation_result, Len(validation_rules))
        /\ validation_result.overall_valid <=>
               (/\ RGe(validation_result.quality_score, Rat(80))
                /\ AggregatedIssues(validation_result,
                                    Len(validation_rules)) = <<>>)

(* a returned result whose score passes 80 but which holds critical issues *)
C1_Witness ==
    /\ Returned
    /\ RGe(validation_result.quality_score, Rat(80))
    /\ Len(validation_result.critical_issues) > 0
    /\ ~validation_result.overall_valid

(* C2: every component validator's score lies in the closed range [0,100], *)
(* also for sub-records whose numeric fields are zero or negative.         *)
C2_ScoresInRange ==
    \A c \in ComponentsRun :
        /\ RLe(Rat(0), validation_result.component_validations[c].score)
        /\ RLe(validation_result.component_validations[c].score, Rat(100))

(* C3: on every return path of every component validator, valid is false   *)
(* whenever the returned critical_issues list is non-empty.                *)
C3_CriticalMeansInvalid ==
    \A c \in ComponentsRun :
        Len(validation_result.component_validations[c].critical_issues) > 0
            => ~validation_result.component_validations[c].valid

(* a component that scores above its pass mark and yet has a critical issue *)
C3_Witness ==
    /\ "drivers_mentais" \in ComponentsRun
    /\ LET cv == validation_result.component_validations["drivers_mentais"]
       IN  /\ Len(cv.critical_issues) > 0
           /\ RGe(cv.score, Rat(60))
           /\ ~cv.valid

(* the documented weights *)
StatedWeight(c) ==
    CASE c = "drivers_mentais" -> Frac(25, 100)
      [] c = "provas_visuais" -> Frac(20, 100)
      [] c = "sistema_anti_objecao" -> Frac(20, 100)
      [] c = "avatar_ultra_detalhado" -> Frac(20, 100)
      [] c = "metricas_forenses" -> Frac(15, 100)

(* <<sum of score x weight, sum of weight>> over the components that ran *)
RECURSIVE WeightedSums(_, _)
WeightedSums(result, k) ==
    IF k = 0 THEN <<Rat(0), Rat(0)>>
    ELSE LET rest == WeightedSums(result, k - 1)
             c == validation_rules[k]
         IN  IF c \in DOMAIN result.component_validations
             THEN <<RAdd(rest[1],
                         RMul(result.component_validations[c].score,
                              StatedWeight(c))),
                    RAdd(rest[2], StatedWeight(c))>>
             ELSE rest

ExpectedQuality(result) ==
    LET sums == WeightedSums(result, Len(validation_rules))
    IN  IF sums[2] = Rat(0) THEN Rat(0)
        ELSE Norm(sums[1][1] * sums[2][2], sums[1][2] * sums[2][1])

(* C4: quality_score is the sum of score x weight over the components that *)
(* ran, divided by the sum of their weights (0.25, 0.20, 0.20, 0.20,       *)
(* 0.15); a component that raised adds to neither sum; with no weight      *)
(* accumulated the quality_score is 0.                                     *)
C4_WeightedAverage ==
    ScoreComputed =>
        validation_result.quality_score = ExpectedQuality(validation_result)

(* all five components ran and the average is strictly between 0 and 100 *)
C4_Witness ==
    /\ Returned
    /\ ComponentsRun = AllComponents
    /\ RLt(Rat(0), validation_result.quality_score)
    /\ RLt(validation_result.quality_score, Rat(100))

(* no component ran, and the score was set to 0 *)
C4_NoWeightReached ==
    ScoreComputed /\ ComponentsRun = {} /\ max_score = Rat(0)

(* C5: validate_complete_analysis never raises to its caller for a record  *)
(* that is a mapping, whatever its categories hold.                        *)
C5_NeverRaises == analysis_data.shape = "dict" => vpc # "raised"

----------------------------------------------------------------------------
(* Properties of the error recovery system *)

AuditFailed == \E i \in DOMAIN audit_log : ~audit_log[i].ok

StrategyRan == rpc \in {"salvar_etapa", "done"} /\ recovery_result # NoOutcome

(* the cases in which the selected strategy meets an exception: the AI     *)
(* manager fails, a context that is no mapping is asked for 'segmento',    *)
(* or a 'segmento' that is no string is upper-cased                        *)
StrategyRaised ==
    /\ StrategyRan
    /\ \/ /\ recovery_strategy = "ai_manager_fallback"
          /\ \/ ai_result = "raises"
             \/ ai_result \in {"empty", "response"} /\ context.shape # "dict"
             \/ /\ ai_result \in {"no_provider", "empty"}
                /\ context.shape # "dict" \/ context.segmento = "int"
       \/ /\ recovery_strategy = "component_failure"
          /\ context.shape # "dict"

(* the rules of the classification, each read on its own *)
Rule1 == Contains(error.message, <<"'AIManager'", "object has no attribute">>)
Rule2 == Contains(error.message, <<"object has no attribute">>)
Rule3 ==
    \/ Contains(error.message, <<"list indices must be integers">>)
    \/ /\ Contains(error.message, <<"takes">>)
       /\ Contains(error.message, <<"positional arguments">>)
Rule4 ==
    /\ component_name.shape = "str"
    /\ \E f \in {"driver", "visual", "anti_objection"} :
          \E i \in DOMAIN component_name.parts : component_name.parts[i] = f
Rule5 ==
    \E i \in DOMAIN error.message :
        error.message[i] \in {"validation", "Validation", "invalid", "Invalid"}

(* no message rule matches and the name test meets a number *)
ClassificationRaised ==
    /\ rpc = "done"
    /\ ~AuditFailed
    /\ component_name.shape = "int"
    /\ ~(Rule1 \/ Rule2 \/ Rule3)

(* C6: recover_from_error is total.  Whenever the audit sink, the          *)
(* classification or the selected strategy raises, the call still returns, *)
(* and what it returns is the emergency outcome: recovery_successful =     *)
(* false, method = 'emergency_recovery', and emergency_data carrying the   *)
(* context and the component name of the call.                             *)
C6_EmergencyOnRaise ==
    /\ rpc \in {"idle", "salvar_erro", "identify", "strategy",
                "salvar_etapa", "done"}
    /\ (rpc = "done" /\ (AuditFailed \/ ClassificationRaised
                          \/ StrategyRaised))
         => /\ outcome.recovery_successful = FALSE
            /\ outcome.method = "emergency_recovery"
            /\ outcome.emergency_data.context = context
            /\ outcome.emergency_data.component = component_name

(* a strategy raised, both audit calls succeeded, the emergency outcome    *)
(* was returned                                                            *)
C6_Witness ==
    /\ rpc = "done"
    /\ ~AuditFailed
    /\ StrategyRaised
    /\ recovery_strategy = "component_failure"
    /\ outcome.method = "emergency_recovery"

(* the classification raised on a numeric component name *)
C6_ClassificationWitness ==
    /\ ClassificationRaised
    /\ outcome.method = "emergency_recovery"

FirstMatch ==
    CASE Rule1 -> "ai_manager_fallback"
      [] ~Rule1 /\ Rule2 -> "missing_method"
      [] ~Rule1 /\ ~Rule2 /\ Rule3 -> "invalid_data_structure"
      [] ~Rule1 /\ ~Rule2 /\ ~Rule3 /\ Rule4 -> "component_failure"
      [] ~Rule1 /\ ~Rule2 /\ ~Rule3 /\ ~Rule4 /\ Rule5 -> "validation_failure"
      [] OTHER -> "None"

(* the classification has returned a strategy name or None *)
Classified ==
    \/ rpc \in {"strategy", "salvar_etapa"}
    \/ rpc = "done" /\ audit_log[1].ok /\ ~ClassificationRaised

(* C7: the strategy is selected by the first rule that matches, in the     *)
(* order AIManager no-attribute, no-attribute, list-index or positional-   *)
(* argument mismatch, fragile component name, validation/invalid, and the  *)
(* generic recovery when none matches.  An AIManager no-attribute message  *)
(* never selects missing_method, and a message matching rules 1-3 never    *)
(* selects component_failure whatever the component name.                  *)
C7_FirstMatchWins ==
    Classified =>
        /\ recovery_strategy = FirstMatch
        /\ Rule1 => recovery_strategy # "missing_method"
        /\ (Rule1 \/ Rule2 \/ Rule3) => recovery_strategy # "component_failure"
        /\ (rpc = "done" /\ FirstMatch = "None")
              => outcome.method = "generic_recovery"

(* rules 1, 2 and 4 all match and rule 1 won *)
C7_Witness ==
    /\ Classified
    /\ Rule1 /\ Rule2 /\ Rule4
    /\ recovery_strategy = "ai_manager_fallback"

(* rule 5 matched through the case-insensitive comparison *)
C7_CaseWitness ==
    /\ Classified
    /\ \E i \in DOMAIN error.message : error.message[i] = "Invalid"
    /\ recovery_strategy = "validation_failure"

(* what the AI manager may have answered in this call *)
PossibleAI == IF ai_result = "unused" THEN AIOutcomes ELSE {ai_result}

(* what recover_from_error returns for these arguments when both audit     *)
(* calls succeed                                                          *)
OutcomeWithAudit(ai) ==
    IF IdentifyRaises(error.message, component_name)
    THEN _emergency_recovery(error, context, component_name)
    ELSE LET strategy ==
                 _identify_recovery_strategy(error.message, component_name)
         IN  IF strategy = "None"
             THEN _generic_recovery(error, context, component_name)
             ELSE RunStrategy(strategy, error, context, component_name, ai)

(* C8: a failure of the audit sink, before the classification or after the *)
(* strategy, does not change the outcome: what recover_from_error returns  *)
(* is what it returns when the audit calls succeed.                        *)
C8_AuditFailureKeepsOutcome ==
    rpc = "done" => \E ai \in PossibleAI : outcome = OutcomeWithAudit(ai)

----------------------------------------------------------------------------
(* Properties of the auto-fixer *)

(* C9: auto_fix_common_errors never changes the caller's record: once the  *)
(* call has returned, the record handed in, nested lists and Cialdini      *)
(* counters included, equals its value before the call.                    *)
C9_OriginalUnchanged ==
    apc \in {"done", "caught"} => CallerRecord = data_before

(* C10: when an exception occurs during auto_fix_common_errors, also after *)
(* an earlier fix was applied, the result has auto_fix_successful = false  *)
(* and its original_data equals the record as it was before the call.      *)
C10_FailureReturnsOriginal ==
    apc = "caught" =>
        /\ fix_result.auto_fix_successful = FALSE
        /\ fix_result.original_data = data_before

(* the part of C10 the code keeps: the failure is reported *)
C10_FailureReported ==
    apc = "caught" => fix_result.auto_fix_successful = FALSE

(* the name under which the path taken is known: the strategy selected, or *)
(* the generic or the emergency recovery                                   *)
PathName ==
    IF outcome.method = "emergency_recovery" THEN "emergency_recovery"
    ELSE IF recovery_strategy = "None" THEN "generic_recovery"
    ELSE recovery_strategy

(* C11: every outcome recover_from_error returns holds recovery_successful *)
(* (a boolean), method equal to the name of the strategy selected, a       *)
(* recommendation, a timestamp, and fallback_data or emergency_data.       *)
C11_OutcomeShape ==
    rpc = "done" =>
        /\ {"recovery_successful", "method", "recommendation", "timestamp"}
              \subseteq DOMAIN outcome
        /\ outcome.recovery_successful \in BOOLEAN
        /\ outcome.method = PathName
        /\ "fallback_data" \in DOMAIN outcome
              \/ "emergency_data" \in DOMAIN outcome

(* the part of C11 every path keeps: recovery_successful and method *)
C11_CoreFields ==
    rpc = "done" =>
        /\ {"recovery_successful", "method"} \subseteq DOMAIN outcome
        /\ outcome.recovery_successful \in BOOLEAN

(* no path returns both: the strategies set no timestamp, the generic and  *)
(* the emergency recovery no recommendation                                *)
C11_NeverBoth ==
    rpc = "done" =>
        ~({"recommendation", "timestamp"} \subseteq DOMAIN outcome)


(* what one invocation of auto_fix_common_errors alone returns for a record *)
SoloSuccessful(input) ==
    /\ ~DriversFixRaises(input.drivers_mentais_customizados)
    /\ ~ProvasFixRaises(input.provas_visuais_arsenal)
    /\ ~CialdiniFixRaises(input.metricas_forenses_detalhadas)

SoloFixes(input) ==
    (IF DriversPadded(input.drivers_mentais_customizados)
     THEN <<"drivers_mentais_minimum">> ELSE <<>>)
    \o (IF ProvasPadded(input.provas_visuais_arsenal)
        THEN <<"provas_visuais_minimum">> ELSE <<>>)
    \o (IF CialdiniFixReported(input.metricas_forenses_detalhadas)
        THEN <<"cialdini_triggers_basic">> ELSE <<>>)
    \o (IF input.metadata.shape = "absent"
        THEN <<"metadata_added">> ELSE <<>>)

(* the single invocation of SpecAutoFix returns the fixes of SoloFixes *)
SoloAgrees ==
    /\ apc = "done" => /\ SoloSuccessful(data_before)
                       /\ fix_result.fixes_applied = SoloFixes(data_before)
    /\ apc = "caught" => ~SoloSuccessful(data_before)

BothReturned == \A t \in Invocations : inv_pc[t] \in {"done", "caught"}

(* each of the two invocations returns what it returns alone *)
C12_SameResult ==
    BothReturned =>
        \A t \in Invocations :
            /\ inv_result[t].auto_fix_successful = SoloSuccessful(data_before)
            /\ inv_result[t].auto_fix_successful =>
                  inv_result[t].fixes_applied = SoloFixes(data_before)

(* a list that started below the minimum ends with exactly the minimum *)
C12_ExactMinimum ==
    BothReturned =>
        /\ DriversPadded(data_before.drivers_mentais_customizados) =>
              Len(nested.drivers_mentais_customizados
                        .drivers_customizados.items) = MinDrivers
        /\ (/\ ProvasPadded(data_before.provas_visuais_arsenal)
            /\ ~DriversFixRaises(data_before.drivers_mentais_customizados)) =>
              Len(nested.provas_visuais_arsenal
                        .arsenal_provis_completo.items) = MinProvis

(* C12: two invocations of auto_fix_common_errors given the same record    *)
(* and interleaved at any points each return the result they return alone, *)
(* and a list that started below the minimum ends with exactly the minimum *)
(* number of items (3 drivers, 2 proofs).                                  *)
C12_Reentrant == C12_SameResult /\ C12_ExactMinimum

(* the part that holds: no padded list ends below its minimum *)
C12_AtLeastMinimum ==
    BothReturned =>
        /\ DriversPadded(data_before.drivers_mentais_customizados) =>
              Len(nested.drivers_mentais_customizados
                        .drivers_customizados.items) >= MinDrivers
        /\ (/\ ProvasPadded(data_before.provas_visuais_arsenal)
            /\ ~DriversFixRaises(data_before.drivers_mentais_customizados)) =>
              Len(nested.provas_visuais_arsenal
                        .arsenal_provis_completo.items) >= MinProvis


(* the second call, on the fixed_data of the first, has returned *)
SecondPassReturned == pass_number = 2 /\ apc = "done"

(* C13: auto_fix_common_errors applied to the fixed_data of a successful   *)
(* pass adds no item to the driver list or the visual-proof list and       *)
(* reports none of 'drivers_mentais_minimum', 'provas_visuais_minimum',    *)
(* 'metadata_added'.                                                       *)
C13_PaddingIdempotent ==
    SecondPassReturned =>
        /\ nested.drivers_mentais_customizados
              = data_before.drivers_mentais_customizados
        /\ nested.provas_visuais_arsenal = data_before.provas_visuais_arsenal
        /\ \A i \in 1..Len(fix_result.fixes_applied) :
              fix_result.fixes_applied[i] \notin
                 {"drivers_mentais_minimum", "provas_visuais_minimum",
                  "metadata_added"}

(* a second pass has returned after a first pass that padded both lists    *)
(* and added the metadata                                                  *)
C13_Witness ==
    /\ SecondPassReturned
    /\ data_before.metadata.fixes_applied =
          <<"drivers_mentais_minimum", "provas_visuais_minimum",
            "metadata_added">>
    /\ Len(nested.drivers_mentais_customizados.drivers_customizados.items)
          = MinDrivers
    /\ Len(nested.provas_visuais_arsenal.arsenal_provis_completo.items)
          = MinProvis


(* drivers_data with one more item at the end of drivers_customizados *)
WithDriver(drivers_data, driver) ==
    [drivers_data EXCEPT !.items = Append(@, driver)]

(* proofs_data with one more item at the end of arsenal_provis_completo *)
WithProvi(proofs_data, provi) ==
    [proofs_data EXCEPT !.arsenal_provis_completo.items = Append(@, provi)]

(* C14: appending one more item to drivers_customizados (or to the list of *)
(* PROVIs), well-formed or not, never decreases the validator's score.     *)
(* The appended item is a copy of any item of the list.                    *)
C14_CountMonotone ==
    LET d == analysis_data.drivers_mentais
        p == analysis_data.provas_visuais
    IN  /\ (d.shape = "dict" /\ d.dc = "list") =>
              \A i \in DOMAIN d.items :
                  RLe(_validate_mental_drivers(d).score,
                      _validate_mental_drivers(WithDriver(d, d.items[i])).score)
        /\ (p.shape = "dict" /\ p.arsenal_provis_completo.shape = "list") =>
              \A i \in DOMAIN p.arsenal_provis_completo.items :
                  RLe(_validate_visual_proofs(p).score,
                      _validate_visual_proofs(
                          WithProvi(p, p.arsenal_provis_completo.items[i])).score)

(* the part that holds: a well-formed driver, or a complete PROVI, more    *)
(* never decreases the score                                               *)
C14_WellFormedMonotone ==
    LET d == analysis_data.drivers_mentais
        p == analysis_data.provas_visuais
    IN  /\ (d.shape = "dict" /\ d.dc = "list") =>
              \A i \in DOMAIN d.items :
                  DriverWellFormed(d.items[i]) =>
                  RLe(_validate_mental_drivers(d).score,
                      _validate_mental_drivers(WithDriver(d, d.items[i])).score)
        /\ (p.shape = "dict" /\ p.arsenal_provis_completo.shape = "list") =>
              \A i \in DOMAIN p.arsenal_provis_completo.items :
                  ProviComplete(p.arsenal_provis_completo.items[i]) =>
                  RLe(_validate_visual_proofs(p).score,
                      _validate_visual_proofs(
                          WithProvi(p, p.arsenal_provis_completo.items[i])).score)


(* validate_data_sources has returned for a record whose search results,   *)
(* if any, are a list                                                      *)
SourcesCounted ==
    /\ spc = "done"
    /\ analysis_data.shape = "dict"
    /\ analysis_data.pesquisa_web_massiva.shape \in {"absent", "empty", "dict"}
    /\ analysis_data.pesquisa_web_massiva.search_results.shape
          \in {"absent", "list"}

(* the search results of the record *)
SearchResults == analysis_data.pesquisa_web_massiva.search_results.items

TrustedCount ==
    Cardinality({i \in DOMAIN SearchResults : SearchResults[i].url = "trusted"})

ExpectedPercentage ==
    IF Len(SearchResults) = 0 THEN Rat(0)
    ELSE Ratio100(TrustedCount, Len(SearchResults))

ExpectedQualityLabel ==
    IF RGe(ExpectedPercentage, Rat(80)) THEN "excellent"
    ELSE IF RGe(ExpectedPercentage, Rat(60)) THEN "good"
    ELSE IF RGe(ExpectedPercentage, Rat(40)) THEN "fair"
    ELSE "poor"

(* C15: validate_data_sources returns total_sources = the number of search *)
(* results, verified_sources = the number of them whose url holds a        *)
(* trusted domain, real_data_percentage = verified/total*100 (0 when total *)
(* is 0) and source_quality excellent from 80, good from 60, fair from 40, *)
(* otherwise poor.                                                         *)
C15_SourceValidation ==
    SourcesCounted =>
        /\ source_validation.total_sources = Len(SearchResults)
        /\ source_validation.verified_sources = TrustedCount
        /\ source_validation.real_data_percentage = ExpectedPercentage
        /\ source_validation.source_quality = ExpectedQualityLabel

(* every result is a mapping whose url, if any, is a string, and           *)
(* json.dumps takes the record                                             *)
SourcesWellFormed ==
    /\ analysis_data.serializable
    /\ \A i \in DOMAIN SearchResults :
          SearchResults[i].isdict /\ SearchResults[i].url # "none"

(* the part that holds: the same for well-formed records *)
C15_WellFormedSources ==
    (SourcesCounted /\ SourcesWellFormed) =>
        /\ source_validation.total_sources = Len(SearchResults)
        /\ source_validation.verified_sources = TrustedCount
        /\ source_validation.real_data_percentage = ExpectedPercentage
        /\ source_validation.source_quality = ExpectedQualityLabel

(* the documented example: one trusted and one untrusted url give 1, 2,    *)
(* 50.0 and 'fair'                                                         *)
C15_ExampleReached ==
    /\ SourcesCounted /\ SourcesWellFormed
    /\ Len(SearchResults) = 2 /\ TrustedCount = 1
    /\ source_validation.verified_sources = 1
    /\ source_validation.total_sources = 2
    /\ source_validation.real_data_percentage = Rat(50)
    /\ source_validation.source_quality = "fair"


(* the three facts the record is asked for *)
HasSearchResults ==
    /\ analysis_data.pesquisa_web_massiva.shape = "dict"
    /\ analysis_data.pesquisa_web_massiva.search_results.shape = "list"
    /\ analysis_data.pesquisa_web_massiva.search_results.items # <<>>

HasDetailedMetrics == analysis_data.metricas_forenses_detalhadas

HasQualityScore ==
    analysis_data.metadata.shape = "dict" /\ analysis_data.metadata.quality_score

(* C16: scientific_compliance in the result of validate_complete_analysis  *)
(* is true exactly when the record has a non-empty                         *)
(* pesquisa_web_massiva.search_results, a non-empty                        *)
(* metricas_forenses_detalhadas and a truthy metadata.quality_score,       *)
(* whatever the component validators found.  search_results is a list      *)
(* when present.                                                           *)
C16_ComplianceIff ==
    (/\ Returned
     /\ analysis_data.pesquisa_web_massiva.search_results.shape
           \in {"absent", "list"}) =>
        (validation_result.scientific_compliance
            <=> (HasSearchResults /\ HasDetailedMetrics /\ HasQualityScore))

(* a compliant record whose components all fail *)
C16_Witness ==
    /\ Returned
    /\ validation_result.scientific_compliance
    /\ HasSearchResults /\ HasDetailedMetrics /\ HasQualityScore
    /\ ~validation_result.overall_valid
    /\ validation_result.quality_score = Rat(0)

(* a record whose components all pass and that is not compliant *)
C16_ValidNotCompliant ==
    /\ Returned
    /\ validation_result.overall_valid
    /\ ~validation_result.scientific_compliance


(* validate_complete_analysis({}) has returned *)
EmptyRecordValidated == Returned /\ analysis_data = EmptyRecord

(* C17: validate_complete_analysis on the empty record {} yields           *)
(* overall_valid = false, a non-empty critical_issues with at least one    *)
(* entry from each of the five components, and quality_score 0.            *)
C17_EmptyRecord ==
    EmptyRecordValidated =>
        /\ ~validation_result.overall_valid
        /\ validation_result.critical_issues # <<>>
        /\ ComponentsRun = AllComponents
        /\ \A c \in AllComponents :
              LET issues == validation_result.component_validations[c]
                                .critical_issues
              IN  /\ issues # <<>>
                  /\ Contains(validation_result.critical_issues, issues)
        /\ validation_result.quality_score = Rat(0)

(* the result for {}: seven critical issues of five components *)
C17_Witness ==
    /\ EmptyRecordValidated
    /\ Cardinality(AllComponents) = 5
    /\ Len(validation_result.critical_issues) = 7
    /\ ~validation_result.overall_valid


(* the anti-objection validator has scored a mapping it could read *)
AntiObjectionScored ==
    /\ "sistema_anti_objecao" \in ComponentsRun
    /\ analysis_data.sistema_anti_objecao.shape = "dict"
    /\ analysis_data.sistema_anti_objecao.objecoes_universais.shape = "dict"
    /\ analysis_data.sistema_anti_objecao.scripts_personalizados.shape # "none"
    /\ analysis_data.sistema_anti_objecao.arsenal_emergencia.shape # "none"

RequiredKeys == {required_universals[i] : i \in DOMAIN required_universals}

UniversalKeysPresent ==
    analysis_data.sistema_anti_objecao.objecoes_universais.keys

(* the score with a coverage term of (required keys present) / 3 * 100 *)
ScoreWithRequiredCoverage ==
    LET a == analysis_data.sistema_anti_objecao
        coverage == Ratio100(Cardinality(UniversalKeysPresent \cap RequiredKeys), 3)
    IN  RDivInt(RAdd(RAdd(coverage,
                          CappedRatio(SizeOf(a.scripts_personalizados), 3)),
                     CappedRatio(SizeOf(a.arsenal_emergencia), 8)), 3)

(* C18: the coverage term of the anti-objection score is the number of the *)
(* three required keys (tempo, dinheiro, confianca) present, over 3, times *)
(* 100; keys other than those three do not raise it.                       *)
C18_RequiredCoverage ==
    AntiObjectionScored =>
        validation_result.component_validations["sistema_anti_objecao"].score
            = ScoreWithRequiredCoverage

(* the part that holds: the same when no other key is present *)
C18_NoOtherKeys ==
    (AntiObjectionScored /\ UniversalKeysPresent \subseteq RequiredKeys) =>
        validation_result.component_validations["sistema_anti_objecao"].score
            = ScoreWithRequiredCoverage


(* the classification has started, or a strategy was selected or has run *)
PastAudit ==
    \/ rpc \in {"identify", "strategy", "salvar_etapa"}
    \/ recovery_strategy # "None"
    \/ recovery_result # NoOutcome

StrategySelected == recovery_strategy # "None"

(* C19: the raw error is handed to the audit sink before any               *)
(* classification or strategy runs; on every path where one of the five    *)
(* strategies was selected its result is handed to the audit sink before   *)
(* the call returns; on the generic-recovery path no result is recorded.   *)
C19_AuditOrder ==
    /\ PastAudit =>
          /\ audit_log # <<>>
          /\ audit_log[1] = [call |-> "salvar_erro", ok |-> TRUE]
    /\ (rpc = "done" /\ StrategySelected) =>
          /\ Len(audit_log) = 2
          /\ audit_log[2].call = "salvar_etapa"
          /\ recovery_result # NoOutcome
    /\ (rpc = "done" /\ ~StrategySelected) =>
          \A i \in DOMAIN audit_log : audit_log[i].call # "salvar_etapa"

(* a strategy's result was recorded and then returned *)
C19_Witness ==
    /\ rpc = "done" /\ StrategySelected
    /\ audit_log = <<[call |-> "salvar_erro", ok |-> TRUE],
                     [call |-> "salvar_etapa", ok |-> TRUE]>>
    /\ outcome = recovery_result

(* the generic recovery returned and only the raw error was recorded *)
C19_GenericWitness ==
    /\ rpc = "done" /\ ~StrategySelected
    /\ outcome.method = "generic_recovery"
    /\ audit_log = <<[call |-> "salvar_erro", ok |-> TRUE]>>


(* the drivers validator has run on a mapping whose drivers_customizados   *)
(* is a list of items whose definicao_visceral, if any, is a string        *)
DriversScored ==
    /\ "drivers_mentais" \in ComponentsRun
    /\ analysis_data.shape = "dict"
    /\ analysis_data.drivers_mentais.shape = "dict"
    /\ analysis_data.drivers_mentais.dc = "list"
    /\ \A i \in DOMAIN analysis_data.drivers_mentais.items :
          analysis_data.drivers_mentais.items[i].def_shape = "str"

DriversResult == validation_result.component_validations["drivers_mentais"]

(* n items, v of them mappings with a name and a definition of more than   *)
(* 50 characters                                                           *)
DriverCount == Len(analysis_data.drivers_mentais.items)

WellFormedCount ==
    Cardinality({i \in DOMAIN analysis_data.drivers_mentais.items :
        /\ analysis_data.drivers_mentais.items[i].isdict
        /\ analysis_data.drivers_mentais.items[i].nome # ""
        /\ analysis_data.drivers_mentais.items[i].def_len > 50})

(* (min(n/19*100, 100) + v/n*100) / 2 *)
StatedDriversScore ==
    LET quantity == IF DriverCount >= 19 THEN Rat(100)
                    ELSE Frac(DriverCount * 100, 19)
        quality == Frac(WellFormedCount * 100, DriverCount)
    IN  RDivInt(RAdd(quantity, quality), 2)

(* C20: for a drivers_customizados list of n items, v of them well-formed: *)
(* n = 0 gives one critical issue and score 0; n < 5 gives a critical      *)
(* issue; 5 <= n < 19 gives a warning and no critical issue; the score is  *)
(* (min(n/19*100, 100) + v/n*100) / 2; valid iff score >= 60 and n >= 5.   *)
C20_DriversValidator ==
    DriversScored =>
        /\ DriverCount = 0 =>
              /\ Len(DriversResult.critical_issues) = 1
              /\ DriversResult.score = Rat(0)
              /\ ~DriversResult.valid
              /\ DriversResult.warnings = <<>>
        /\ (0 < DriverCount /\ DriverCount < 5) =>
              Len(DriversResult.critical_issues) = 1
        /\ (5 <= DriverCount /\ DriverCount < 19) =>
              /\ Len(DriversResult.warnings) = 1
              /\ DriversResult.critical_issues = <<>>
        /\ DriverCount >= 19 =>
              /\ DriversResult.warnings = <<>>
              /\ DriversResult.critical_issues = <<>>
        /\ DriverCount > 0 =>
              /\ DriversResult.score = StatedDriversScore
              /\ DriversResult.valid <=>
                    (RGe(DriversResult.score, Rat(60)) /\ DriverCount >= 5)

(* the documented example: 3 well-formed items, valid = false, score > 0 *)
C20_Witness ==
    /\ DriversScored
    /\ DriverCount = 3 /\ WellFormedCount = 3
    /\ ~DriversResult.valid
    /\ RLt(Rat(0), DriversResult.score)
    /\ RGe(DriversResult.score, Rat(57))

(* five or more items below 60: no critical issue and not valid *)
C20_LowScoreReached ==
    /\ DriversScored
    /\ DriverCount >= 5
    /\ RLt(DriversResult.score, Rat(60))
    /\ ~DriversResult.valid


(* the forensic-metrics validator has run on a mapping *)
ForensicScored ==
    /\ "metricas_forenses" \in ComponentsRun
    /\ analysis_data.shape = "dict"
    /\ analysis_data.metricas_forenses.shape = "dict"

ForensicResult == validation_result.component_validations["metricas_forenses"]

DensidadeRead == analysis_data.metricas_forenses.densidade_persuasiva

IntensidadeRead == analysis_data.metricas_forenses.intensidade_emocional

(* densidade_persuasiva is a mapping whose argumentos_totais and counters  *)
(* are numbers, intensidade_emocional a mapping or absent                  *)
ForensicTyped ==
    /\ DensidadeRead.shape = "dict"
    /\ DensidadeRead.argumentos_totais.shape \in {"absent", "int"}
    /\ DensidadeRead.gatilhos_cialdini.shape \in {"absent", "dict"}
    /\ \A i \in DOMAIN DensidadeRead.gatilhos_cialdini.counts :
          DensidadeRead.gatilhos_cialdini.counts[i].shape = "int"
    /\ IntensidadeRead.shape \in {"absent", "dict"}

ArgumentosRead ==
    IF DensidadeRead.argumentos_totais.shape = "int"
    THEN DensidadeRead.argumentos_totais.v ELSE 0

NonZeroCounters ==
    Cardinality({i \in DOMAIN DensidadeRead.gatilhos_cialdini.counts :
                    DensidadeRead.gatilhos_cialdini.counts[i].v # 0})

IntenseEmotions ==
    Cardinality({i \in DOMAIN IntensidadeRead.valores :
                    /\ IntensidadeRead.valores[i].parses
                    /\ IntensidadeRead.valores[i].v >= 7})

ForensicIssue(text) ==
    \E i \in DOMAIN ForensicResult.critical_issues :
        ForensicResult.critical_issues[i].text = text

C21_BothIssues ==
    /\ ForensicScored /\ ForensicTyped
    /\ Len(ForensicResult.critical_issues) = 2

(* fewer than 2 intense emotions: a warning, no critical issue, valid *)
C21_WarningOnly ==
    /\ ForensicScored /\ ForensicTyped
    /\ IntensidadeRead.valores # <<>> /\ IntenseEmotions < 2
    /\ ForensicResult.critical_issues = <<>>
    /\ Len(ForensicResult.warnings) = 1
    /\ ForensicResult.valid

(* no emotional intensity given: no warning *)
C21_NoEmotionsNoWarning ==
    /\ ForensicScored /\ ForensicTyped
    /\ IntensidadeRead.valores = <<>>
    /\ ForensicResult.warnings = <<>>


(* _recover_component_failure has returned for a name that is a string and *)
(* a context that is a mapping                                             *)
ComponentFailureReturned ==
    /\ rpc = "strategy_returned"
    /\ component_name.shape = "str"
    /\ context.shape = "dict"

NameHas(part) ==
    \E i \in DOMAIN component_name.parts : component_name.parts[i] = part

(* C22: the component-failure strategy dispatches on component_name in the *)
(* order driver, visual, anti_objection: 3 templated drivers, else 2       *)
(* templated proofs, else the 3 objection/rebuttal pairs tempo, dinheiro,  *)
(* confianca, else a generic placeholder; the outcome always has           *)
(* recovery_successful = true and method = 'component_fallback'.           *)
C22_ComponentDispatch ==
    ComponentFailureReturned =>
        /\ recovery_result.recovery_successful = TRUE
        /\ recovery_result.method = "component_fallback"
        /\ IF NameHas("driver")
           THEN /\ recovery_result.fallback_data.kind = "drivers_customizados"
                /\ Len(recovery_result.fallback_data.items) = 3
           ELSE IF NameHas("visual")
           THEN /\ recovery_result.fallback_data.kind
                      = "arsenal_provis_completo"
                /\ Len(recovery_result.fallback_data.items) = 2
           ELSE IF NameHas("anti_objection")
           THEN /\ recovery_result.fallback_data.kind = "objecoes_universais"
                /\ recovery_result.fallback_data.items
                      = <<"tempo", "dinheiro", "confianca">>
           ELSE /\ recovery_result.fallback_data.kind = "generic"
                /\ recovery_result.fallback_data.items = <<>>

(* a name with both 'visual' and 'driver' gets the drivers *)
C22_Witness ==
    /\ ComponentFailureReturned
    /\ NameHas("driver") /\ NameHas("visual")
    /\ recovery_result.fallback_data.kind = "drivers_customizados"
    /\ recovery_result.fallback_data.count = 3

(* a name with none of the three gets the generic placeholder *)
C22_GenericReached ==
    /\ ComponentFailureReturned
    /\ recovery_result.fallback_data.kind = "generic"

(* a name that is no string gets the emergency outcome *)
C22_NoStringName ==
    /\ rpc = "strategy_returned"
    /\ component_name.shape = "none"
    /\ recovery_result.method = "emergency_recovery"


(* a successful call has returned for a record whose                       *)
(* metricas_forenses_detalhadas.densidade_persuasiva.gatilhos_cialdini is  *)
(* a mapping of counters                                                   *)
FixReturned == apc = "done" /\ fix_result.auto_fix_successful

CountersBefore ==
    data_before.metricas_forenses_detalhadas.densidade_persuasiva
        .gatilhos_cialdini

CountersAfter ==
    fix_result.fixed_data.metricas_forenses_detalhadas.densidade_persuasiva
        .gatilhos_cialdini

HadCounters ==
    /\ data_before.metricas_forenses_detalhadas.shape = "dict"
    /\ data_before.metricas_forenses_detalhadas.densidade_persuasiva.shape
          = "dict"
    /\ CountersBefore.shape = "dict"

Reports(fix) ==
    \E i \in 1..Len(fix_result.fixes_applied) :
        fix_result.fixes_applied[i] = fix

HoldsDefaults(cialdini) ==
    /\ cialdini.shape = "dict"
    /\ {"reciprocidade", "autoridade", "prova_social", "escassez",
        "compromisso", "afinidade"} \subseteq DOMAIN cialdini.counts
    /\ cialdini.counts["reciprocidade"] = 2
    /\ cialdini.counts["autoridade"] = 3
    /\ cialdini.counts["prova_social"] = 4
    /\ cialdini.counts["escassez"] = 1
    /\ cialdini.counts["compromisso"] = 2
    /\ cialdini.counts["afinidade"] = 3

(* C23: when the gatilhos_cialdini counters of the record are all zero,    *)
(* fixed_data holds afterwards reciprocidade 2, autoridade 3,              *)
(* prova_social 4, escassez 1, compromisso 2, afinidade 3 and              *)
(* 'cialdini_triggers_basic' is reported; when a counter is non-zero the   *)
(* counters are unchanged and the identifier is not reported.              *)
C23_CialdiniFix ==
    (FixReturned /\ HadCounters) =>
        IF \A k \in DOMAIN CountersBefore.counts :
               CountersBefore.counts[k] = 0
        THEN /\ HoldsDefaults(CountersAfter)
             /\ Reports("cialdini_triggers_basic")
        ELSE /\ CountersAfter = CountersBefore
             /\ ~Reports("cialdini_triggers_basic")

(* six zero counters were replaced by the defaults *)
C23_Witness ==
    /\ FixReturned /\ HadCounters
    /\ pass_number = 1
    /\ CountersBefore.counts = [k \in DOMAIN CialdiniDefaults |-> 0]
    /\ HoldsDefaults(CountersAfter)
    /\ Reports("cialdini_triggers_basic")

(* one non-zero counter among zeros: nothing is changed or reported *)
C23_NonZeroKept ==
    /\ FixReturned /\ HadCounters
    /\ pass_number = 1
    /\ CountersBefore.counts =
          [k \in DOMAIN CialdiniDefaults |->
              IF k = "autoridade" THEN 1 ELSE 0]
    /\ CountersAfter = CountersBefore
    /\ ~Reports("cialdini_triggers_basic")


(* C24: whenever a successful result lists 'cialdini_triggers_basic',      *)
(* fixed_data.metricas_forenses_detalhadas.densidade_persuasiva            *)
(* .gatilhos_cialdini exists and contains the six non-zero defaults, also  *)
(* when densidade_persuasiva or gatilhos_cialdini was absent or empty in   *)
(* the input.                                                              *)
C24_ReportedFixIsPresent ==
    (FixReturned /\ Reports("cialdini_triggers_basic")) =>
        /\ fix_result.fixed_data.metricas_forenses_detalhadas.shape = "dict"
        /\ fix_result.fixed_data.metricas_forenses_detalhadas
              .densidade_persuasiva.shape = "dict"
        /\ HoldsDefaults(CountersAfter)

(* the part of C24 the code keeps: a reported fix is present when the      *)
(* record had a gatilhos_cialdini mapping, the empty one included          *)
C24_PresentWhenCountersExisted ==
    (FixReturned /\ HadCounters /\ Reports("cialdini_triggers_basic")) =>
        HoldsDefaults(CountersAfter)

(* the fix is reported for a record without densidade_persuasiva, and      *)
(* fixed_data has no counters                                              *)
C24_ReportedButAbsent ==
    /\ FixReturned
    /\ pass_number = 1
    /\ Reports("cialdini_triggers_basic")
    /\ data_before.metricas_forenses_detalhadas.densidade_persuasiva.shape
          = "absent"
    /\ fix_result.fixed_data.metricas_forenses_detalhadas
          = data_before.metricas_forenses_detalhadas

(* C25: a second pass over the fixed_data of a first successful pass       *)
(* reports an empty fixes_applied and returns fixed_data equal to its      *)
(* input, for every starting record, also one whose                        *)
(* metricas_forenses_detalhadas has no gatilhos_cialdini.                  *)
C25_SecondPassStable ==
    SecondPassReturned =>
        /\ fix_result.auto_fix_successful
        /\ fix_result.fixes_applied = <<>>
        /\ fix_result.fixed_data = data_before

(* the part of C25 the code keeps: the second pass returns fixed_data      *)
(* equal to its input, and reports nothing unless the counters are missing *)
C25_SecondPassSameData ==
    SecondPassReturned =>
        /\ fix_result.auto_fix_successful
        /\ fix_result.fixed_data = data_before
        /\ (data_before.metricas_forenses_detalhadas.shape = "dict"
               => HadCounters)
             => fix_result.fixes_applied = <<>>

(* a second pass over a record without gatilhos_cialdini reports the       *)
(* Cialdini fix again                                                      *)
C25_ReportedAgain ==
    /\ SecondPassReturned
    /\ data_before.metricas_forenses_detalhadas.shape = "dict"
    /\ ~HadCounters
    /\ fix_result.fixes_applied = <<"cialdini_triggers_basic">>
    /\ data_before.metadata.fixes_applied[1] = "cialdini_triggers_basic"


(* validate_complete_analysis has returned for the fixed_data of a         *)
(* successful auto_fix_common_errors call                                  *)
FixedDataValidated ==
    /\ vpc = "done"
    /\ apc = "done" /\ pass_number = 1
    /\ fix_result.auto_fix_successful

(* the same record as it was before the call of auto_fix_common_errors *)
OriginalData ==
    AsAnalysisData(analysis_data, analysis_data.pesquisa_web_massiva,
                   data_before, data_before.metadata)

(* the operator validate_complete_analysis is what the steps of the method *)
(* return                                                                  *)
C26_OperatorAgrees ==
    vpc = "done" => validation_result = validate_complete_analysis(analysis_data)

(* C26: validate_complete_analysis on the fixed_data of a successful       *)
(* auto_fix_common_errors call returns the same quality_score,             *)
(* critical_issues, warnings and overall_valid as on the original record.  *)
C26_ValidationUnchanged ==
    FixedDataValidated =>
        LET original == validate_complete_analysis(OriginalData)
        IN  /\ validation_result.quality_score = original.quality_score
            /\ validation_result.critical_issues = original.critical_issues
            /\ validation_result.warnings = original.warnings
            /\ validation_result.overall_valid = original.overall_valid

(* a valid record whose fixed_data has the lists padded, the counters set  *)
(* and the metadata added, and is compliant where the original is not      *)
C26_Witness ==
    /\ FixedDataValidated
    /\ validation_result.overall_valid
    /\ fix_result.fixes_applied =
          <<"drivers_mentais_minimum", "provas_visuais_minimum",
            "cialdini_triggers_basic", "metadata_added">>
    /\ validation_result.scientific_compliance
    /\ ~validate_complete_analysis(OriginalData).scientific_compliance

(* the empty record with fixes applied: the same critical issues *)
C26_EmptyRecordFixed ==
    /\ FixedDataValidated
    /\ fix_result.fixes_applied # <<>>
    /\ validation_result.critical_issues # <<>>
    /\ validation_result.critical_issues
          = validate_complete_analysis(EmptyRecord).critical_issues


TemplatedKinds ==
    {"drivers_customizados", "arsenal_provis_completo", "objecoes_universais"}

(* C27: through recover_from_error, component_failure is selected only     *)
(* when component_name contains 'driver', 'visual' or 'anti_objection';    *)
(* every component_fallback outcome carries templated drivers, proofs or   *)
(* objection pairs, never the generic placeholder; a None component_name   *)
(* never reaches the component-failure strategy.                           *)
C27_GenericUnreachable ==
    /\ recovery_strategy = "component_failure" =>
          /\ component_name.shape = "str"
          /\ NameHas("driver") \/ NameHas("visual") \/ NameHas("anti_objection")
    /\ (recovery_result # NoOutcome
          /\ recovery_result.method = "component_fallback") =>
          /\ recovery_result.fallback_data.kind \in TemplatedKinds
          /\ Len(recovery_result.fallback_data.items) \in {2, 3}
    /\ (rpc = "done" /\ outcome.method = "component_fallback") =>
          /\ outcome.fallback_data.kind \in TemplatedKinds
          /\ outcome.fallback_data.kind # "generic"
    /\ component_name.shape = "none" =>
          recovery_strategy # "component_failure"

(* recover_from_error returned the objection pairs for a name with         *)
(* 'anti_objection'                                                        *)
C27_Witness ==
    /\ rpc = "done"
    /\ recovery_strategy = "component_failure"
    /\ outcome.method = "component_fallback"
    /\ outcome.fallback_data.kind = "objecoes_universais"
    /\ outcome.fallback_data.items = <<"tempo", "dinheiro", "confianca">>

(* a name with none of the three words and an error no rule matches: the   *)
(* generic recovery answers, not the component-failure strategy            *)
C27_OtherNameGeneric ==
    /\ rpc = "done"
    /\ component_name.shape = "str" /\ component_name.parts # <<>>
    /\ ~(NameHas("driver") \/ NameHas("visual") \/ NameHas("anti_objection"))
    /\ recovery_strategy = "None"
    /\ outcome.method = "generic_recovery"

(* a None name with an error no rule matches *)
C27_NoneName ==
    /\ rpc = "done"
    /\ component_name.shape = "none"
    /\ recovery_strategy = "None"
    /\ outcome.method = "generic_recovery"

====
